---- MODULE Spec2Model ----
(***************************************************************************)
(* InvestAnalyzer backend: the upload pipeline of backend/server.js, the   *)
(* report routes of backend/routes/analysis.js, and the scoring and        *)
(* validation functions they use.                                          *)
(***************************************************************************)
EXTENDS Integers, Sequences, FiniteSets, TLC

(***************************************************************************)
(* Part 1.  Scoring: calculateOverallScore, computed in IEEE-754 binary64  *)
(* as JavaScript computes it.                                              *)
(*                                                                         *)
(* A non-negative double below 2^7 is an integer multiple of 2^-57.  It is *)
(* held as four 16-bit limbs <<l0, l1, l2, l3>>, least significant first,  *)
(* in units of 2^-57.                                                      *)
(***************************************************************************)

LimbBase == 2^16

ZeroLimbs == <<0, 0, 0, 0>>

\* a + b, exact
AddLimbs(a, b) ==
    LET s0 == a[1] + b[1]
        s1 == a[2] + b[2] + (s0 \div LimbBase)
        s2 == a[3] + b[3] + (s1 \div LimbBase)
        s3 == a[4] + b[4] + (s2 \div LimbBase)
    IN  <<s0 % LimbBase, s1 % LimbBase, s2 % LimbBase, s3>>

\* a * k for a small non-negative integer k, exact
MulSmall(a, k) ==
    LET s0 == a[1] * k
        s1 == a[2] * k + (s0 \div LimbBase)
        s2 == a[3] * k + (s1 \div LimbBase)
        s3 == a[4] * k + (s2 \div LimbBase)
    IN  <<s0 % LimbBase, s1 % LimbBase, s2 % LimbBase, s3>>

RECURSIVE Log2(_)
Log2(n) == IF n <= 1 THEN 0 ELSE 1 + Log2(n \div 2)

\* Round an exact value to the nearest double (53 significant bits, ties to
\* even): the rounding every JavaScript + and * applies to its exact result.
RoundToDouble(v) ==
    IF v[4] = 0 THEN v
    ELSE LET d == Log2(v[4]) - 4
         IN  IF d <= 0 THEN v
             ELSE LET m     == 2^d
                      rem   == v[1] % m
                      odd   == (v[1] \div m) % 2 = 1
                      up    == rem * 2 > m \/ (rem * 2 = m /\ odd)
                      trunc == <<v[1] - rem, v[2], v[3], v[4]>>
                  IN  IF up THEN AddLimbs(trunc, <<m, 0, 0, 0>>) ELSE trunc

\* Math.round of a non-negative double: the nearest integer, ties upward.
MathRound(v) == (v[4] \div 2^9) + ((v[4] \div 2^8) % 2)

Min(a, b) == IF a < b THEN a ELSE b
Max(a, b) == IF a > b THEN a ELSE b

\* The nine categories, in the order of the `weights` object literal.
CategoryOrder ==
    << "Problem Statement", "Solution/Product", "Market Opportunity",
       "Business Model", "Competitive Landscape", "Team",
       "Traction/Milestones", "Financial Projections",
       "Clarity and Presentation" >>

Categories == { CategoryOrder[i] : i \in 1..Len(CategoryOrder) }

\* The binary64 values of the weight literals 0.10, 0.15, 0.20, 0.15, 0.10,
\* 0.10, 0.10, 0.05, 0.05, in units of 2^-57.
weights ==
    << <<13108, 13107, 13107, 51>>,  <<52428, 52428, 52428, 76>>,
       <<26216, 26214, 26214, 102>>, <<52428, 52428, 52428, 76>>,
       <<13108, 13107, 13107, 51>>,  <<13108, 13107, 13107, 51>>,
       <<13108, 13107, 13107, 51>>,  <<39322, 39321, 39321, 25>>,
       <<39322, 39321, 39321, 25>> >>

\* The same weights as the percentages the rubric states.
WeightPct == <<10, 15, 20, 15, 10, 10, 10, 5, 5>>

\* One category entry of a parsed LLM response: absent (or falsy), or an
\* object whose score is a number or something else.
CatMissing == [present |-> FALSE, numeric |-> FALSE, score |-> 0]
CatNonNumeric == [present |-> TRUE, numeric |-> FALSE, score |-> 0]
CatScore(n) == [present |-> TRUE, numeric |-> TRUE, score |-> n]

\* categoryData && typeof categoryData.score === 'number' && 0 <= score <= 10
ScoreUsable(c) == c.present /\ c.numeric /\ c.score >= 0 /\ c.score <= 10

RECURSIVE SumScores(_, _, _)
\* the for-in loop: totalScore += score * weight, or += 0 * weight
SumScores(cats, i, totalScore) ==
    IF i > Len(CategoryOrder) THEN totalScore
    ELSE LET c    == cats[CategoryOrder[i]]
             term == IF ScoreUsable(c)
                     THEN RoundToDouble(MulSmall(weights[i], c.score))
                     ELSE ZeroLimbs
         IN  SumScores(cats, i + 1, RoundToDouble(AddLimbs(totalScore, term)))

calculateOverallScore(analysisResult) ==
    LET totalScore == SumScores(analysisResult.cats, 1, ZeroLimbs)
        overall    == MathRound(RoundToDouble(MulSmall(totalScore, 10)))
    IN  Max(0, Min(100, overall))


(***************************************************************************)
(* Part 2.  Validation of a parsed LLM response (analyzeWithGemini).       *)
(***************************************************************************)

TopFields ==
    { "overall_strengths", "overall_weaknesses", "recommendation",
      "confidence_score", "recommendations_for_investor", "processing_date" }

\* A top-level field of the parsed response: a value, null, or not there.
TopValues == {"present", "null", "absent"}

\* overall_score of a response that carries none
NoScore == 0 - 1

\* analysis_data of a fresh row: the empty object {} of saveAnalysisToDB
EmptyAnalysis ==
    [ cats          |-> [c \in Categories |-> CatMissing],
      top           |-> [f \in TopFields |-> "absent"],
      overall_score |-> NoScore ]

missingCategories(r) == { c \in Categories : ~r.cats[c].present }

categoriesWithInvalidScores(r) ==
    { c \in Categories :
        /\ r.cats[c].present
        /\ \/ ~r.cats[c].numeric
           \/ r.cats[c].score < 0
           \/ r.cats[c].score > 10 }

missingTopLevelFields(r) == { f \in TopFields : r.top[f] \in {"absent", "null"} }

\* Variant of the validation in which a missing category is fatal as well
ValidationFailsStrict(r) ==
    \/ missingCategories(r) # {}
    \/ categoriesWithInvalidScores(r) # {}
    \/ missingTopLevelFields(r) # {}

\* Variant of the validation that looks at the scores only
ValidationFailsScoresOnly(r) == categoriesWithInvalidScores(r) # {}

\* the condition of the throw of "Analysis validation failed"
ValidationFails(r) ==
    \/ categoriesWithInvalidScores(r) # {}
    \/ missingTopLevelFields(r) # {}

\* Variant that keeps an overall_score the response brought along
AttachTrustingLLM(r) ==
    IF r.overall_score # NoScore THEN r
    ELSE [r EXCEPT !.overall_score = calculateOverallScore(r)]

\* analysisResult.overall_score = calculateOverallScore(analysisResult)
AttachOverallScore(r) == [r EXCEPT !.overall_score = calculateOverallScore(r)]


(***************************************************************************)
(* Part 3.  State of the server: the analysis_results table, the bucket,   *)
(* the two temp directories, and the requests in flight.                   *)
(***************************************************************************)

\* Bounds of the model
MaxFaults == 1      \* failures of external calls (DB, S3, process) per upload
MaxTime == 1        \* readings of the clock beyond the first

Slots == {1, 2}     \* upload requests
SoloSlots == {1}
Users == {1, 2}     \* userId of the authenticated caller
SoloUsers == {1}    \* the user of the upload of slot 1
RequestIds == {1}   \* analysisId path parameters callers send
AllIds == {1, 2}
DelSlots == {1, 2}  \* delete requests
SoloDel == {1}

\* Original file names without their extension, as sequences of characters:
\* "a.pptx", "a!.pptx", "!.pptx".
Names == { <<"a">>, <<"a", "!">>, <<"!">> }

\* Slide counts of the decks submitted
SlideCounts == {4, 10}

MinSlides == 5
MaxSlides == 35

IsAlnum(ch) == ch \in {"a"}

\* file.originalname.replace(/[^a-zA-Z0-9.\-_]/g, '_')
safeOriginalName(name) ==
    [ i \in 1..Len(name) |->
        IF IsAlnum(name[i]) \/ name[i] \in {".", "-", "_"} THEN name[i] ELSE "_" ]

RECURSIVE KeepNameChars(_)
\* .replace(/[^a-zA-Z0-9\-_ ]/g, '')
KeepNameChars(name) ==
    IF name = <<>> THEN <<>>
    ELSE IF IsAlnum(Head(name)) \/ Head(name) \in {"-", "_", " "}
         THEN <<Head(name)>> \o KeepNameChars(Tail(name))
         ELSE KeepNameChars(Tail(name))

\* basename without extension, filtered, spaces to '_', first 50 characters
startupNameOf(name) ==
    LET kept == KeepNameChars(name)
        und  == [i \in 1..Len(kept) |-> IF kept[i] = " " THEN "_" ELSE kept[i]]
    IN  SubSeq(und, 1, Min(Len(und), 50))

\* the clock reading as a calendar day (dateStr of format(today, 'ddMMyyyy'))
Day(t) == t \div 2

\* multer's filename: Date.now() + '-' + safeOriginalName
DeckFilename(t, name) == [t |-> t, name |-> safeOriginalName(name)]
NoDeck == [t |-> 0, name |-> <<>>]

\* prepareReportData(...).filename: Investment_Thesis_<startupName>_<date>.pdf,
\* where an empty startupName becomes Analysis_<analysisId>
prepareReportData(name, analysisId, t) ==
    LET sn == startupNameOf(name)
    IN  IF sn = <<>>
        THEN [name |-> <<"Analysis_">>, id |-> analysisId, day |-> Day(t)]
        ELSE [name |-> sn, id |-> 0, day |-> Day(t)]
NoReport == [name |-> <<>>, id |-> 0, day |-> 0]

StageSeq ==
    << "PENDING", "UPLOADING_DECK", "EXTRACTING_TEXT", "ANALYZING_AI",
       "SAVING_ANALYSIS", "GENERATING_PDF", "UPLOADING_PDF", "COMPLETED" >>

\* An Error: its message, and the length of the message in characters
NoError == [msg |-> "", len |-> 0]
Err(m, n) == [msg |-> m, len |-> n]

NoResp == [code |-> 0, stageFailed |-> "", error |-> NoError, overallScore |-> NoScore,
           message |-> <<>>]

IdleSlot ==
    [ pc |-> "idle", userId |-> 0, userEmail |-> "",
      originalFileName |-> <<>>, slides |-> 0,
      s3KeyDeck |-> NoDeck, analysisId |-> 0, analysisResult |-> EmptyAnalysis,
      pdfS3Key |-> NoReport, pdfLocalPath |-> NoReport,
      currentStage |-> "Initiating", error |-> NoError,
      retries |-> 0, attempts |-> 0, delays |-> <<>>, llm |-> "none",
      responseText |-> EmptyAnalysis,
      emailOutcome |-> "none",
      resp |-> NoResp,
      respStatus |-> "" ]

VARIABLES
    jobs,          \* analysis_results: id -> row
    nextId,        \* the table's serial
    s3Decks,       \* bucket objects under the deck keys: key -> uploading slot
    s3Reports,     \* bucket objects under reports/: key -> analysisId rendered
    tempUploads,   \* temp-uploads directory: filename -> uploading slot
    tempReports,   \* temp-reports directory: filename -> analysisId rendered
    now,           \* the clock
    gmailConfigured, \* GMAIL_USER and GMAIL_APP_PASSWORD are set
    sub,           \* upload requests: slot -> locals of the handler
    dl,            \* the download request in flight
    del,           \* the delete requests in flight: delete slot -> locals
    rm,            \* the remove-unavailable request in flight
    seen,          \* the last response of a status or history request
    pre,           \* the validate-slides request in flight
    poll,          \* the status polling of the upload page
    faults,        \* slot -> external calls of the request that have failed
    hist,          \* slot -> statuses its Job's row has held, in order
    fnIn, fnOut    \* argument and result of a function applied on its own

vars == << jobs, nextId, s3Decks, s3Reports, tempUploads, tempReports, now,
           gmailConfigured, sub, dl, del, rm, seen, pre, poll, faults,
           hist, fnIn, fnOut >>

envVars == << now, gmailConfigured >>
fnVars == << fnIn, fnOut >>
readVars == << rm, seen, pre, poll >>

EmptyMap == [x \in {} |-> 0]

IdleDl == [pc |-> "idle", userId |-> 0, analysisId |-> 0, pdfS3Key |-> NoReport,
           s3Error |-> "", dbFailed |-> FALSE, prevStatus |-> "",
           resp |-> [code |-> 0, url |-> NoReport, errorType |-> ""]]
IdleDel == [pc |-> "idle", userId |-> 0, analysisId |-> 0, rowCount |-> 0, resp |-> 0]
IdleRm == [pc |-> "idle", userId |-> 0, count |-> 0, deleted |-> 0, resp |-> 0]
NoneSeen == [op |-> "none", userId |-> 0, id |-> 0, code |-> 0, status |-> "", rows |-> {}]
NoResult == [done |-> FALSE, ok |-> FALSE, score |-> 0]
NoCount == 0
IdlePoll == [pc |-> "off", userId |-> 0, id |-> 0, requests |-> 0]
IdlePre == [pc |-> "idle", file |-> NoDeck, slides |-> 0,
            resp |-> [code |-> 0, slideCount |-> NoCount, error |-> ""],
            sent |-> 0, threw |-> FALSE]

\* The server after start: an empty table, bucket and temp directories, and
\* no request in flight
Started(failed) ==
    /\ jobs = EmptyMap
    /\ nextId = 1
    /\ s3Decks = EmptyMap
    /\ s3Reports = EmptyMap
    /\ tempUploads = EmptyMap
    /\ tempReports = EmptyMap
    /\ now = 0
    /\ sub = [s \in Slots |-> IdleSlot]
    /\ dl = IdleDl
    /\ del = [d \in DelSlots |-> IdleDel]
    /\ rm = IdleRm
    /\ seen = NoneSeen
    /\ pre = IdlePre
    /\ poll = IdlePoll
    /\ faults = [s \in Slots |-> failed]
    /\ hist = [s \in Slots |-> <<>>]

\* The server started with the Gmail configuration
Init ==
    /\ Started(0)
    /\ gmailConfigured = TRUE
    /\ fnIn = EmptyAnalysis
    /\ fnOut = NoResult

InitConfigured == Init

\* The same, for runs in which no external call fails
InitNoFaults ==
    /\ Started(MaxFaults)
    /\ gmailConfigured = TRUE
    /\ fnIn = EmptyAnalysis
    /\ fnOut = NoResult

\* The status of row id in table J, or "" when there is no such row
PersistedStatus(J, id) == IF id \in DOMAIN J THEN J[id].status ELSE ""

\* f with key k bound to v / with key k removed
Put(f, k, v) == [x \in DOMAIN f \cup {k} |-> IF x = k THEN v ELSE f[x]]
Drop(f, k) == [x \in DOMAIN f \ {k} |-> f[x]]


(***************************************************************************)
(* Part 4.  Persistence helpers of server.js, as functions of the table.   *)
(***************************************************************************)

ReasonLimit == 500

\* failureReason.substring(0, 500)
Truncate(e, n) == [e EXCEPT !.len = Min(e.len, n)]

\* INSERT ... 'PENDING' RETURNING id, with analysis_data = {} and score 0
NewRow(userId, name, s3Key) ==
    [ owner |-> userId, original_filename |-> name, s3_key |-> s3Key,
      status |-> "PENDING", failure_reason |-> NoError,
      analysis |-> EmptyAnalysis, overall_score |-> 0,
      pdf_s3_key |-> NoReport,
      email_status |-> "NULL", email_failure_reason |-> NoError ]

\* Variant that stores the failure reason uncut
updateAnalysisStatusUncut(J, id, status, failureReason) ==
    LET reasonToStore == IF status = "FAILED" /\ failureReason # NoError
                         THEN failureReason
                         ELSE NoError
    IN  IF id \in DOMAIN J
        THEN [J EXCEPT ![id].status = status, ![id].failure_reason = reasonToStore]
        ELSE J

\* UPDATE ... SET processing_status, failure_reason WHERE id
updateAnalysisStatus(J, id, status, failureReason) ==
    LET reasonToStore == IF status = "FAILED" /\ failureReason # NoError
                         THEN Truncate(failureReason, ReasonLimit)
                         ELSE NoError
    IN  IF id \in DOMAIN J
        THEN [J EXCEPT ![id].status = status, ![id].failure_reason = reasonToStore]
        ELSE J

\* The parsed responses the LLM gives in this model.  GoodResp carries an
\* overall_score of its own, which differs from the computed one.
AllSeven == [c \in Categories |-> CatScore(7)]
AllPresent == [f \in TopFields |-> "present"]
GoodResp == [cats |-> AllSeven, top |-> AllPresent, overall_score |-> 99]
MissingCatResp ==
    [cats |-> [AllSeven EXCEPT !["Team"] = CatMissing], top |-> AllPresent,
     overall_score |-> NoScore]
BadScoreResp ==
    [cats |-> [AllSeven EXCEPT !["Team"] = CatScore(11)], top |-> AllPresent,
     overall_score |-> NoScore]
MissingTopResp ==
    [cats |-> AllSeven, top |-> [AllPresent EXCEPT !["recommendation"] = "absent"],
     overall_score |-> NoScore]
LLMResponses == {GoodResp, MissingCatResp, BadScoreResp, MissingTopResp}

\* calculateOverallScore on each result analyzeWithGemini can return
ScoreTable ==
    [a \in { AttachOverallScore(r) : r \in { x \in LLMResponses : ~ValidationFails(x) } }
       |-> calculateOverallScore(a)]

\* Variant that stores the score and leaves analysis_data as it was
updateScoreOnly(J, id, analysisResult) ==
    IF id \in DOMAIN J
    THEN [J EXCEPT ![id].overall_score = ScoreTable[analysisResult]]
    ELSE J

\* overallScore = calculateOverallScore(analysisResult);
\* UPDATE ... SET analysis_data, overall_score, ... WHERE id
updateAnalysisResultInDB(J, id, analysisResult) ==
    IF id \in DOMAIN J
    THEN [J EXCEPT ![id].analysis = analysisResult,
                   ![id].overall_score = ScoreTable[analysisResult]]
    ELSE J

\* Variant that marks the row COMPLETED and leaves pdf_s3_key as it was
updateCompleteWithoutKey(J, id, pdfS3Key) ==
    IF id \in DOMAIN J THEN [J EXCEPT ![id].status = "COMPLETED"] ELSE J

\* UPDATE ... SET pdf_s3_key, processing_status = 'COMPLETED' WHERE id
updatePdfKeyAndComplete(J, id, pdfS3Key) ==
    IF id \in DOMAIN J
    THEN [J EXCEPT ![id].pdf_s3_key = pdfS3Key, ![id].status = "COMPLETED"]
    ELSE J

EmailReasonLimit == 255

\* Variant that records the status without the reason
updateEmailStatusNoReason(J, id, status, failureReason) ==
    IF id \in DOMAIN J THEN [J EXCEPT ![id].email_status = status] ELSE J

\* UPDATE ... SET email_status, email_failure_reason WHERE id
updateEmailStatus(J, id, status, failureReason) ==
    LET reasonToStore == IF status = "FAILED" /\ failureReason # NoError
                         THEN Truncate(failureReason, EmailReasonLimit)
                         ELSE NoError
    IN  IF id \in DOMAIN J
        THEN [J EXCEPT ![id].email_status = status,
                       ![id].email_failure_reason = reasonToStore]
        ELSE J

(***************************************************************************)
(* Part 5.  POST /api/analysis/upload, one action per awaited call.        *)
(***************************************************************************)

\* The handler's locals once analyzeWithGemini has returned or thrown: the
\* locals of the call are gone.
Returned(s) ==
    [sub[s] EXCEPT !.retries = 0, !.attempts = 0, !.delays = <<>>, !.llm = "none",
                   !.responseText = EmptyAnalysis]

\* An external call of request s fails.
Fault(s) ==
    /\ faults[s] < MaxFaults
    /\ faults' = [faults EXCEPT ![s] = @ + 1]

NoFault == UNCHANGED faults

\* The statuses a row has held: h with the row's new status appended.
Record(s, J) ==
    LET id == sub[s].analysisId
    IN  IF id \in DOMAIN J THEN [hist EXCEPT ![s] = Append(@, J[id].status)] ELSE hist

\* throw: control passes to the catch block with the error
Throw(s, e) == [sub[s] EXCEPT !.pc = "catch", !.error = e]

\* Variant with both limits exclusive
SlideCountAcceptedExclusive(n) == n > MinSlides /\ n < MaxSlides

\* The client's range check of handleFile on the count validate-slides returned
SlideCountAccepted(n) == n >= MinSlides /\ n <= MaxSlides

\* The request reaches the handler: multer has stored the file in temp-uploads.
\* A request made through the upload page was validated by handleFile first;
\* any other client posts to the endpoint directly.
Submit(s) ==
    /\ sub[s].pc = "idle"
    /\ \A r \in Slots : r < s => sub[r].pc # "idle"
    /\ \E userId \in (IF s = 1 THEN {1} ELSE Users),
          name \in (IF s = 1 THEN {<<"a">>} ELSE Names),
          slides \in (IF s = 1 THEN SlideCounts ELSE {10}),
          viaPage \in BOOLEAN :
        /\ viaPage => SlideCountAccepted(slides)
        /\ LET file == DeckFilename(now, name)
           IN  /\ tempUploads' = Put(tempUploads, file, s)
               /\ sub' = [sub EXCEPT ![s] =
                            [IdleSlot EXCEPT !.pc = "save", !.userId = userId,
                                             !.userEmail = "user@example.com",
                                             !.originalFileName = name,
                                             !.slides = slides,
                                             !.s3KeyDeck = file,
                                             !.currentStage = "Database Initialization"]]
    /\ UNCHANGED << jobs, nextId, s3Decks, s3Reports, tempReports, envVars,
                    dl, del, faults, hist, readVars, fnVars >>

\* analysisId = await saveAnalysisToDB(s3KeyDeck, {}, userId, originalFileName)
SaveAnalysis(s) ==
    /\ sub[s].pc = "save"
    /\ \/ /\ jobs' = Put(jobs, nextId,
                         NewRow(sub[s].userId, sub[s].originalFileName, sub[s].s3KeyDeck))
          /\ nextId' = nextId + 1
          /\ sub' = [sub EXCEPT ![s].analysisId = nextId,
                                ![s].currentStage = "Deck Upload to S3",
                                ![s].pc = "st_upload_deck"]
          /\ hist' = [hist EXCEPT ![s] = <<"PENDING">>]
          /\ NoFault
       \/ /\ Fault(s)
          /\ sub' = [sub EXCEPT ![s] =
                       Throw(s, Err("Failed to create analysis record in DB.", 39))]
          /\ UNCHANGED << jobs, nextId, hist >>
    /\ UNCHANGED << s3Decks, s3Reports, tempUploads, tempReports, envVars,
                    dl, del, readVars, fnVars >>

\* Variant with the statuses of the two PDF stages exchanged
StageStatusSwapped ==
    [ st_upload_deck |-> "UPLOADING_DECK", st_extract |-> "EXTRACTING_TEXT",
      st_ai |-> "ANALYZING_AI", st_save |-> "SAVING_ANALYSIS",
      st_pdf |-> "UPLOADING_PDF", st_upload_pdf |-> "GENERATING_PDF" ]

\* The status each stage persists before its side effect, and the side effect.
StageStatus ==
    [ st_upload_deck |-> "UPLOADING_DECK", st_extract |-> "EXTRACTING_TEXT",
      st_ai |-> "ANALYZING_AI", st_save |-> "SAVING_ANALYSIS",
      st_pdf |-> "GENERATING_PDF", st_upload_pdf |-> "UPLOADING_PDF" ]
StageEffect ==
    [ st_upload_deck |-> "upload_deck", st_extract |-> "extract", st_ai |-> "ai",
      st_save |-> "save_result", st_pdf |-> "pdf", st_upload_pdf |-> "upload_pdf" ]

\* await updateAnalysisStatus(analysisId, <status>): a failure of the query is
\* logged and swallowed, and the handler goes on.
UpdateStageStatus(s) ==
    /\ sub[s].pc \in DOMAIN StageStatus
    /\ \/ /\ jobs' = updateAnalysisStatus(jobs, sub[s].analysisId,
                                          StageStatus[sub[s].pc], NoError)
          /\ hist' = Record(s, jobs')
          /\ NoFault
       \/ /\ Fault(s)
          /\ UNCHANGED << jobs, hist >>
    /\ sub' = [sub EXCEPT ![s] = [Returned(s) EXCEPT !.pc = StageEffect[sub[s].pc]]]
    /\ UNCHANGED << nextId, s3Decks, s3Reports, tempUploads, tempReports, envVars,
                    dl, del, readVars, fnVars >>

\* await uploadToS3(localFilePath, s3KeyDeck, mimetype); fs.unlinkSync(localFilePath)
UploadDeck(s) ==
    /\ sub[s].pc = "upload_deck"
    /\ LET file == sub[s].s3KeyDeck
       IN  \/ /\ file \in DOMAIN tempUploads
              /\ s3Decks' = Put(s3Decks, file, tempUploads[file])
              /\ tempUploads' = Drop(tempUploads, file)
              /\ sub' = [sub EXCEPT ![s].currentStage = "Text Extraction",
                                    ![s].pc = "st_extract"]
              /\ NoFault
           \/ /\ file \notin DOMAIN tempUploads
              /\ sub' = [sub EXCEPT ![s] = Throw(s, Err("S3 upload failed", 40))]
              /\ NoFault
              /\ UNCHANGED << s3Decks, tempUploads >>
           \/ /\ Fault(s)
              /\ sub' = [sub EXCEPT ![s] = Throw(s, Err("S3 upload failed", 40))]
              /\ UNCHANGED << s3Decks, tempUploads >>
    /\ UNCHANGED << jobs, nextId, s3Reports, tempReports, envVars,
                    dl, del, hist, readVars, fnVars >>

\* extractedTextData = await runTextExtraction(s3KeyDeck): the script reads
\* the object stored under the key.  It resolves with the slides, and an
\* empty or non-array result is thrown as an error; or it rejects.
ExtractText(s) ==
    /\ sub[s].pc = "extract"
    /\ \/ /\ sub[s].s3KeyDeck \in DOMAIN s3Decks
          /\ NoFault
          /\ \/ sub' = [sub EXCEPT ![s].currentStage = "AI Analysis",
                                   ![s].pc = "st_ai"]
             \/ sub' = [sub EXCEPT ![s] = Throw(s,
                          Err("Text extraction yielded no slides or invalid data.", 50))]
       \/ /\ Fault(s)
          /\ sub' = [sub EXCEPT ![s] = Throw(s, Err("Python script failed", 600))]
    /\ UNCHANGED << jobs, nextId, s3Decks, s3Reports, tempUploads, tempReports,
                    envVars, dl, del, hist, readVars, fnVars >>


\* The Error thrown for a response that fails the validation.  Its message
\* lists the validation errors; the model keeps which kinds are listed.
ValidationError(r) ==
    IF categoriesWithInvalidScores(r) # {} /\ missingTopLevelFields(r) # {}
    THEN Err("LLM analysis failed: Could not parse LLM JSON response: Analysis validation failed: Invalid scores; Missing top-level fields", 160)
    ELSE IF categoriesWithInvalidScores(r) # {}
    THEN Err("LLM analysis failed: Could not parse LLM JSON response: Analysis validation failed: Invalid scores", 130)
    ELSE Err("LLM analysis failed: Could not parse LLM JSON response: Analysis validation failed: Missing top-level fields", 140)

MaxRetries == 2

\* Variant that gives up one attempt early
RetryExhaustedEarly(retries) == retries >= MaxRetries

\* if (retries > maxRetries) throw
RetryExhausted(retries) == retries > MaxRetries

\* Variant with the same delay before every retry
retryDelayFixed(retries) == 1500

\* const delay = 1500 * Math.pow(2, retries - 1), in milliseconds
retryDelay(retries) == 1500 * 2^(retries - 1)

\* The Error of callGeminiWithRetry once the retries are exhausted, as
\* analyzeWithGemini rethrows it
ExhaustedError ==
    Err("LLM analysis failed: Failed to get valid Gemini analysis after "
            \o ToString(MaxRetries + 1) \o " attempts", 90)

\* The Error of analyzeWithGemini when JSON.parse throws on an empty text
EmptyTextError ==
    Err("LLM analysis failed: Could not parse LLM JSON response: Unexpected end of JSON input", 84)

\* The Error of analyzeWithGemini when JSON.parse throws on a text that is
\* JSON but for its unquoted keys, such as {recommendation: "Hold", ...}
MalformedTextError ==
    Err("LLM analysis failed: Could not parse LLM JSON response: Unexpected token r in JSON at position 1", 97)

\* analysisResult = await analyzeWithGemini(extractedTextData): one call of
\* geminiModel.generateContent inside callGeminiWithRetry.  A call that
\* throws, or whose response has no text member and no candidate text, is
\* retried after a delay until the retries are exhausted.  Otherwise
\* response.text() is returned, be it the JSON text, the empty string or the
\* text of a valid analysis with unquoted keys, and goes to JSON.parse as it
\* is; what parses is validated and scored.
AICall(s) ==
    /\ sub[s].pc = "ai"
    /\ sub[s].retries <= MaxRetries
    /\ \/ LET retries == sub[s].retries + 1
          IN  IF RetryExhausted(retries)
              THEN sub' = [sub EXCEPT ![s] =
                             [Throw(s, ExhaustedError)
                                 EXCEPT !.retries = retries,
                                        !.attempts = sub[s].attempts + 1,
                                        !.llm = "exhausted"]]
              ELSE sub' = [sub EXCEPT ![s].retries = retries,
                                      ![s].attempts = sub[s].attempts + 1,
                                      ![s].delays = Append(@, retryDelay(retries))]
       \/ sub' = [sub EXCEPT ![s] =
                    [Throw(s, EmptyTextError) EXCEPT !.attempts = sub[s].attempts + 1,
                                                     !.llm = "empty"]]
       \/ sub' = [sub EXCEPT ![s] =
                    [Throw(s, MalformedTextError) EXCEPT !.attempts = sub[s].attempts + 1,
                                                         !.llm = "malformed",
                                                         !.responseText = GoodResp]]
       \/ \E r \in LLMResponses :
            LET got == [sub[s] EXCEPT !.attempts = sub[s].attempts + 1,
                                      !.llm = "ok",
                                      !.responseText = r]
            IN  IF ValidationFails(r)
                THEN sub' = [sub EXCEPT ![s] =
                               [got EXCEPT !.pc = "catch",
                                           !.error = ValidationError(r)]]
                ELSE sub' = [sub EXCEPT ![s] =
                               [got EXCEPT !.analysisResult = AttachOverallScore(r),
                                           !.currentStage = "Saving Analysis Results",
                                           !.pc = "st_save"]]
    /\ UNCHANGED << jobs, nextId, s3Decks, s3Reports, tempUploads, tempReports,
                    envVars, dl, del, faults, hist, readVars, fnVars >>

\* await updateAnalysisResultInDB(analysisId, analysisResult)
SaveResult(s) ==
    /\ sub[s].pc = "save_result"
    /\ \/ /\ jobs' = updateAnalysisResultInDB(jobs, sub[s].analysisId, sub[s].analysisResult)
          /\ sub' = [sub EXCEPT ![s].currentStage = "PDF Generation", ![s].pc = "st_pdf"]
          /\ NoFault
       \/ /\ Fault(s)
          /\ sub' = [sub EXCEPT ![s] =
                       Throw(s, Err("Failed to update analysis details in database.", 47))]
          /\ UNCHANGED jobs
    /\ UNCHANGED << nextId, s3Decks, s3Reports, tempUploads, tempReports, envVars,
                    dl, del, hist, readVars, fnVars >>

\* { localPath, reportFilename } = await generateInvestmentThesisPDF(...): the
\* report is written to temp-reports/<filename>; a stream error removes the
\* file at that path and rejects.  An exception thrown while the document is
\* composed (format() of a processing_date that is no date) is caught after
\* createWriteStream: the file is removed if the stream has created it by
\* then, else the stream creates it afterwards; the promise rejects and the
\* handler's pdfLocalPath is still null.
GeneratePdf(s) ==
    /\ sub[s].pc = "pdf"
    /\ LET file == prepareReportData(sub[s].originalFileName, sub[s].analysisId, now)
       IN  \/ /\ tempReports' = Put(tempReports, file, sub[s].analysisId)
              /\ sub' = [sub EXCEPT ![s].pdfLocalPath = file,
                                    ![s].pdfS3Key = file,
                                    ![s].currentStage = "PDF Upload to S3",
                                    ![s].pc = "st_upload_pdf"]
              /\ NoFault
           \/ /\ Fault(s)
              /\ tempReports' = Drop(tempReports, file)
              /\ sub' = [sub EXCEPT ![s] = Throw(s, Err("Failed to write PDF stream", 60))]
           \/ /\ Fault(s)
              /\ \E created \in BOOLEAN :
                   tempReports' = IF created THEN Drop(tempReports, file)
                                  ELSE Put(tempReports, file, sub[s].analysisId)
              /\ sub' = [sub EXCEPT ![s] = Throw(s, Err("Invalid time value", 18))]
    /\ UNCHANGED << jobs, nextId, s3Decks, s3Reports, tempUploads, envVars,
                    dl, del, hist, readVars, fnVars >>

\* await uploadToS3(pdfLocalPath, pdfS3Key, 'application/pdf'); unlink the file
UploadPdf(s) ==
    /\ sub[s].pc = "upload_pdf"
    /\ LET file == sub[s].pdfLocalPath
       IN  \/ /\ file \in DOMAIN tempReports
              /\ s3Reports' = Put(s3Reports, sub[s].pdfS3Key, tempReports[file])
              /\ tempReports' = Drop(tempReports, file)
              /\ sub' = [sub EXCEPT ![s].pdfLocalPath = NoReport,
                                    ![s].currentStage = "Finalizing Database Record",
                                    ![s].pc = "complete"]
              /\ NoFault
           \/ /\ file \notin DOMAIN tempReports
              /\ sub' = [sub EXCEPT ![s] = Throw(s, Err("S3 upload failed", 40))]
              /\ NoFault
              /\ UNCHANGED << s3Reports, tempReports >>
           \/ /\ Fault(s)
              /\ sub' = [sub EXCEPT ![s] = Throw(s, Err("S3 upload failed", 40))]
              /\ UNCHANGED << s3Reports, tempReports >>
    /\ UNCHANGED << jobs, nextId, s3Decks, tempUploads, envVars,
                    dl, del, hist, readVars, fnVars >>

\* await updatePdfKeyAndComplete(analysisId, pdfS3Key)
Complete(s) ==
    /\ sub[s].pc = "complete"
    /\ \/ /\ jobs' = updatePdfKeyAndComplete(jobs, sub[s].analysisId, sub[s].pdfS3Key)
          /\ hist' = Record(s, jobs')
          /\ sub' = [sub EXCEPT ![s].currentStage = "Email Notification", ![s].pc = "email"]
          /\ NoFault
       \/ /\ Fault(s)
          /\ sub' = [sub EXCEPT ![s] =
                       Throw(s, Err("Failed to finalize PDF location in database.", 45))]
          /\ UNCHANGED << jobs, hist >>
    /\ UNCHANGED << nextId, s3Decks, s3Reports, tempUploads, tempReports, envVars,
                    dl, del, readVars, fnVars >>

\* res.status(200).json({ ..., overallScore: analysisResult?.overall_score })
Success(s) ==
    [code |-> 200, stageFailed |-> "", error |-> NoError,
     overallScore |-> sub[s].analysisResult.overall_score,
     message |-> <<"Analysis complete. Report generated and notification potentially sent.">>]

\* The reason sendCompletionEmail records on each of its failure paths
EmailFailure ==
    [ no_config |-> Err("Gmail API configuration missing in server", 41),
      no_recipient |-> Err("Recipient email address missing", 31),
      no_key |-> Err("PDF S3 Key missing", 18),
      sign_failed |-> Err("Failed to generate report download link", 300),
      transport_failed |-> Err("Gmail SMTP Error", 300) ]

\* The early return sendCompletionEmail takes, or "none" to go on to the
\* transport; signFails tells whether getSignedUrl throws
EmailEarlyReturn(s, signFails) ==
    IF ~gmailConfigured THEN "no_config"
    ELSE IF sub[s].userEmail = "" THEN "no_recipient"
    ELSE IF sub[s].pdfS3Key = NoReport THEN "no_key"
    ELSE IF signFails THEN "sign_failed"
    ELSE "none"

\* await sendCompletionEmail(...), up to the SENDING mark.  On an early
\* return FAILED is recorded with the reason and the function returns false;
\* the handler then sends the success payload.  updateEmailStatus swallows a
\* failure of its query, so the mark may be lost.
EmailPrepare(s) ==
    /\ sub[s].pc = "email"
    /\ \E signFails \in BOOLEAN, dbFails \in BOOLEAN :
         LET id == sub[s].analysisId
             early == EmailEarlyReturn(s, signFails)
             n == (IF early = "sign_failed" THEN 1 ELSE 0) + (IF dbFails THEN 1 ELSE 0)
         IN  /\ signFails => early = "sign_failed"
             /\ faults[s] + n <= MaxFaults
             /\ faults' = [faults EXCEPT ![s] = @ + n]
             /\ jobs' = IF dbFails THEN jobs
                        ELSE IF early = "none"
                             THEN updateEmailStatus(jobs, id, "SENDING", NoError)
                             ELSE updateEmailStatus(jobs, id, "FAILED", EmailFailure[early])
             /\ sub' = IF early = "none"
                       THEN [sub EXCEPT ![s].pc = "email_send"]
                       ELSE [sub EXCEPT ![s].pc = "done", ![s].emailOutcome = early,
                                        ![s].resp = Success(s),
                                        ![s].respStatus = PersistedStatus(jobs', id)]
    /\ UNCHANGED << nextId, s3Decks, s3Reports, tempUploads, tempReports, envVars,
                    dl, del, hist, readVars, fnVars >>

\* createGmailTransporter, transporter.sendMail and the SENT mark, or the
\* FAILED mark of the catch; the function returns true or false and the
\* handler sends the success payload
EmailSend(s) ==
    /\ sub[s].pc = "email_send"
    /\ \E sendFails \in BOOLEAN, dbFails \in BOOLEAN :
         LET id == sub[s].analysisId
             n == (IF sendFails THEN 1 ELSE 0) + (IF dbFails THEN 1 ELSE 0)
         IN  /\ faults[s] + n <= MaxFaults
             /\ faults' = [faults EXCEPT ![s] = @ + n]
             /\ jobs' = IF dbFails THEN jobs
                        ELSE IF sendFails
                             THEN updateEmailStatus(jobs, id, "FAILED",
                                                    EmailFailure["transport_failed"])
                             ELSE updateEmailStatus(jobs, id, "SENT", NoError)
             /\ sub' = [sub EXCEPT ![s].pc = "done",
                                   ![s].emailOutcome = IF sendFails THEN "transport_failed"
                                                       ELSE "sent",
                                   ![s].resp = Success(s),
                                   ![s].respStatus = PersistedStatus(jobs', id)]
    /\ UNCHANGED << nextId, s3Decks, s3Reports, tempUploads, tempReports, envVars,
                    dl, del, hist, readVars, fnVars >>

\* clientErrorMessage: the message of the failure payload, in its parts
clientErrorMessage(currentStage, error) ==
    << "Processing failed during '", currentStage,
       "'. Please check server logs for details. Error: ", error.msg >>

\* The catch block: FAILED is persisted with error.message when a row was
\* created (a failure of that update is swallowed), both temp files are
\* removed if they exist, and the failure payload is sent.
Catch(s) ==
    /\ sub[s].pc = "catch"
    /\ \/ /\ jobs' = IF sub[s].analysisId # 0
                     THEN updateAnalysisStatus(jobs, sub[s].analysisId, "FAILED", sub[s].error)
                     ELSE jobs
          /\ hist' = IF sub[s].analysisId # 0 THEN Record(s, jobs') ELSE hist
          /\ NoFault
       \/ /\ sub[s].analysisId # 0
          /\ Fault(s)
          /\ UNCHANGED << jobs, hist >>
    /\ tempUploads' = Drop(tempUploads, sub[s].s3KeyDeck)
    /\ tempReports' = IF sub[s].pdfLocalPath # NoReport
                      THEN Drop(tempReports, sub[s].pdfLocalPath)
                      ELSE tempReports
    /\ sub' = [sub EXCEPT ![s] =
                 [Returned(s) EXCEPT
                    !.pc = "done",
                    !.resp = [code |-> 500, stageFailed |-> sub[s].currentStage,
                              error |-> sub[s].error, overallScore |-> NoScore,
                              message |-> clientErrorMessage(sub[s].currentStage,
                                                             sub[s].error)],
                    !.respStatus = PersistedStatus(jobs', sub[s].analysisId)]]
    /\ UNCHANGED << nextId, s3Decks, s3Reports, envVars, dl, del, readVars, fnVars >>

\* The steps of the handler after the request has arrived
Pipeline(s) ==
    \/ SaveAnalysis(s) \/ UpdateStageStatus(s) \/ UploadDeck(s)
    \/ ExtractText(s) \/ AICall(s) \/ SaveResult(s) \/ GeneratePdf(s)
    \/ UploadPdf(s) \/ Complete(s) \/ EmailPrepare(s) \/ EmailSend(s) \/ Catch(s)


(***************************************************************************)
(* Part 6.  routes/analysis.js: download, delete and status requests.      *)
(***************************************************************************)

\* Variant of the selection without the user_id condition
OwnRowAnyUser(userId, id) == id \in DOMAIN jobs

\* The rows a query "WHERE id = $1 AND user_id = $2" selects
OwnRow(userId, id) == id \in DOMAIN jobs /\ jobs[id].owner = userId

\* Variant without the check of pdf_s3_key
DownloadRefusalNoKeyCheck(row) == IF row.status = "FAILED" THEN 400 ELSE 0

\* The early returns of the download handler on the selected row:
\* 404 without a pdf_s3_key, 400 for a FAILED analysis, 0 to go on.
DownloadRefusal(row) ==
    IF row.pdf_s3_key = NoReport THEN 404
    ELSE IF row.status = "FAILED" THEN 400
    ELSE 0

DlResp(code, url, errorType) == [code |-> code, url |-> url, errorType |-> errorType]

\* GET /report/:analysisId/download, the SELECT and the early returns
DownloadStart(userId, id) ==
    /\ dl.pc \in {"idle", "done"}
    /\ LET req == [IdleDl EXCEPT !.userId = userId, !.analysisId = id]
       IN  \/ /\ ~OwnRow(userId, id)
              /\ dl' = [req EXCEPT !.pc = "done", !.resp = DlResp(404, NoReport, "")]
           \/ /\ OwnRow(userId, id)
              /\ LET refusal == DownloadRefusal(jobs[id])
                 IN  IF refusal # 0
                     THEN dl' = [req EXCEPT !.pc = "done",
                                            !.resp = DlResp(refusal, NoReport, "")]
                     ELSE dl' = [req EXCEPT !.pc = "head",
                                            !.pdfS3Key = jobs[id].pdf_s3_key]
    /\ UNCHANGED << jobs, nextId, s3Decks, s3Reports, tempUploads, tempReports,
                    envVars, sub, del, faults, hist, readVars, fnVars >>

\* The errors the S3 calls of the try can end in while the object exists:
\* HeadObjectCommand fails for another reason, or getSignedUrl throws
OtherS3Errors == {"HeadFailed", "SignFailed"}

\* HeadObjectCommand and getSignedUrl inside one try: the signed URL is
\* returned when both succeed; a missing object, or any other S3 error,
\* leads to the catch below.
DownloadCheck ==
    /\ dl.pc = "head"
    /\ \/ /\ dl.pdfS3Key \in DOMAIN s3Reports
          /\ dl' = [dl EXCEPT !.pc = "done", !.resp = DlResp(200, dl.pdfS3Key, "")]
       \/ /\ dl.pdfS3Key \notin DOMAIN s3Reports
          /\ dl' = [dl EXCEPT !.pc = "flip", !.s3Error = "NotFound"]
       \/ /\ dl.pdfS3Key \in DOMAIN s3Reports
          /\ \E e \in OtherS3Errors : dl' = [dl EXCEPT !.pc = "flip", !.s3Error = e]
    /\ UNCHANGED << jobs, nextId, s3Decks, s3Reports, tempUploads, tempReports,
                    envVars, sub, del, faults, hist, readVars, fnVars >>

\* Variant of the update that leaves the row as it is
leaveStatus(J, id) == J

\* UPDATE ... SET processing_status = 'FILE_UNAVAILABLE' WHERE id = $2
markFileUnavailable(J, id) ==
    IF id \in DOMAIN J THEN [J EXCEPT ![id].status = "FILE_UNAVAILABLE"] ELSE J

\* catch (s3Error): the update above, a failure of which is swallowed; then
\* 404 with errorType FILE_ACCESS_ERROR.
DownloadFlip ==
    /\ dl.pc = "flip"
    /\ \E dbFails \in BOOLEAN :
         /\ jobs' = IF dbFails THEN jobs ELSE markFileUnavailable(jobs, dl.analysisId)
         /\ dl' = [dl EXCEPT !.pc = "done", !.dbFailed = dbFails,
                             !.prevStatus = PersistedStatus(jobs, dl.analysisId),
                             !.resp = DlResp(404, NoReport, "FILE_ACCESS_ERROR")]
    /\ hist' = [s \in Slots |->
                  IF /\ sub[s].analysisId = dl.analysisId
                     /\ dl.analysisId \in DOMAIN jobs
                     /\ jobs'[dl.analysisId].status # jobs[dl.analysisId].status
                  THEN Append(hist[s], "FILE_UNAVAILABLE")
                  ELSE hist[s]]
    /\ UNCHANGED << nextId, s3Decks, s3Reports, tempUploads, tempReports,
                    envVars, sub, del, faults, readVars, fnVars >>

\* DELETE /record/:analysisId, the ownership SELECT: 404 when it selects no row
DeleteCheck(d, userId, id) ==
    /\ del[d].pc \in {"idle", "done"}
    /\ LET req == [IdleDel EXCEPT !.userId = userId, !.analysisId = id]
       IN  IF OwnRow(userId, id)
           THEN del' = [del EXCEPT ![d] = [req EXCEPT !.pc = "checked"]]
           ELSE del' = [del EXCEPT ![d] = [req EXCEPT !.pc = "done", !.resp = 404]]
    /\ UNCHANGED << jobs, nextId, s3Decks, s3Reports, tempUploads, tempReports,
                    envVars, sub, dl, faults, hist, readVars, fnVars >>

\* DELETE FROM analysis_results WHERE id = $1 AND user_id = $2, and 200
\* whatever the number of rows deleted
DeleteExec(d) ==
    /\ del[d].pc = "checked"
    /\ LET hit == OwnRow(del[d].userId, del[d].analysisId)
       IN  /\ jobs' = IF hit THEN Drop(jobs, del[d].analysisId) ELSE jobs
           /\ del' = [del EXCEPT ![d].pc = "done", ![d].resp = 200,
                                 ![d].rowCount = IF hit THEN 1 ELSE 0]
    /\ UNCHANGED << nextId, s3Decks, s3Reports, tempUploads, tempReports,
                    envVars, sub, dl, faults, hist, readVars, fnVars >>

\* The rows of table J that belong to userId
OwnRows(J, userId) == [id \in { i \in DOMAIN J : J[i].owner = userId } |-> J[id]]

\* Variant of the status query without the user_id condition
StatusResponseAnyUser(J, userId, id) ==
    IF id \in DOMAIN J
    THEN [code |-> 200, status |-> J[id].status]
    ELSE [code |-> 200, status |-> "PENDING"]

\* GET /status/:analysisId on table J: SELECT processing_status WHERE id AND
\* user_id; 200 with the row's status, or 200 with PENDING when no row is selected
StatusResponse(J, userId, id) ==
    IF id \in DOMAIN J /\ J[id].owner = userId
    THEN [code |-> 200, status |-> J[id].status]
    ELSE [code |-> 200, status |-> "PENDING"]

StatusOf(userId, id) == StatusResponse(jobs, userId, id).status

\* A status request is answered
Poll(userId, id) ==
    /\ seen' = [NoneSeen EXCEPT !.op = "status", !.userId = userId, !.id = id,
                                !.code = StatusResponse(jobs, userId, id).code,
                                !.status = StatusResponse(jobs, userId, id).status]
    /\ UNCHANGED << jobs, nextId, s3Decks, s3Reports, tempUploads, tempReports,
                    envVars, sub, dl, del, rm, pre, poll, faults, hist, fnVars >>

\* Variant of the history query without the user_id condition
HistoryRowsAnyUser(J, userId) == DOMAIN J

\* GET /history on table J: the ids of the rows SELECT ... WHERE user_id returns
HistoryRows(J, userId) == { id \in DOMAIN J : J[id].owner = userId }

\* A history request is answered
History(userId) ==
    /\ seen' = [NoneSeen EXCEPT !.op = "history", !.userId = userId, !.code = 200,
                                !.rows = HistoryRows(jobs, userId)]
    /\ UNCHANGED << jobs, nextId, s3Decks, s3Reports, tempUploads, tempReports,
                    envVars, sub, dl, del, rm, pre, poll, faults, hist, fnVars >>

\* The rows "WHERE user_id = $1 AND processing_status = 'FILE_UNAVAILABLE'" selects
UnavailableRows(J, userId) ==
    { id \in DOMAIN J : J[id].owner = userId /\ J[id].status = "FILE_UNAVAILABLE" }

\* DELETE /history/unavailable, the SELECT COUNT(*)
RemoveCount(userId) ==
    /\ rm.pc \in {"idle", "done"}
    /\ rm' = [IdleRm EXCEPT !.pc = "counted", !.userId = userId,
                            !.count = Cardinality(UnavailableRows(jobs, userId))]
    /\ UNCHANGED << jobs, nextId, s3Decks, s3Reports, tempUploads, tempReports,
                    envVars, sub, dl, del, seen, pre, poll, faults, hist, fnVars >>

\* DELETE FROM analysis_results WHERE user_id AND processing_status, and 200
\* with the count read before.  deleted is the number of rows the statement
\* deletes, which the handler does not read.
RemoveExec ==
    /\ rm.pc = "counted"
    /\ jobs' = [id \in DOMAIN jobs \ UnavailableRows(jobs, rm.userId) |-> jobs[id]]
    /\ rm' = [rm EXCEPT !.pc = "done", !.resp = 200,
                        !.deleted = Cardinality(UnavailableRows(jobs, rm.userId))]
    /\ UNCHANGED << nextId, s3Decks, s3Reports, tempUploads, tempReports,
                    envVars, sub, dl, del, seen, pre, poll, faults, hist, fnVars >>

\* POST /api/analysis/validate-slides.  What the count_only run of
\* extract_text.py ends in: the count, an error reported in its output,
\* output without a numeric count, output that is not JSON, a nonzero exit
\* code, or a process that could not be started.
ScriptOutcomes ==
    {"count", "script_error", "bad_format", "parse_error", "exit_nonzero", "spawn_error"}

\* Variant that writes a response whenever it is called
jsonUnguarded(p, body) == [p EXCEPT !.resp = body, !.sent = p.sent + 1]

\* res.status(code).json(body) on the response of request p: the first call
\* sends the response; a later call throws, the headers having been sent,
\* and sends nothing
json(p, body) ==
    IF p.sent = 0 THEN [p EXCEPT !.resp = body, !.sent = 1]
    ELSE [p EXCEPT !.threw = TRUE]

\* Variant that reports the count with every response
validateSlidesResponseWithCount(outcome, slides) ==
    [code |-> IF outcome = "count" THEN 200
              ELSE IF outcome \in {"script_error", "bad_format"} THEN 400 ELSE 500,
     slideCount |-> slides,
     error |-> IF outcome = "count" THEN "" ELSE outcome]

\* The response of the handler for each outcome of the script
validateSlidesResponse(outcome, slides) ==
    IF outcome = "count"
    THEN [code |-> 200, slideCount |-> slides, error |-> ""]
    ELSE IF outcome \in {"script_error", "bad_format"}
    THEN [code |-> 400, slideCount |-> NoCount, error |-> outcome]
    ELSE [code |-> 500, slideCount |-> NoCount, error |-> outcome]

\* The request reaches the handler.  multer has refused the file (400 or
\* 413) or there is no file (400), or multer has stored the file in
\* temp-uploads and the script is started on it.
ValidateSlidesStart ==
    /\ pre.pc \in {"idle", "done"}
    /\ \/ /\ pre' = [json(IdlePre, [code |-> 400, slideCount |-> NoCount,
                                      error |-> "upload_failed"])
                       EXCEPT !.pc = "done"]
          /\ UNCHANGED tempUploads
       \/ \E name \in Names, slides \in SlideCounts :
            LET file == DeckFilename(now, name)
            IN  /\ tempUploads' = Put(tempUploads, file, 0)
                /\ pre' = [IdlePre EXCEPT !.pc = "counting", !.file = file,
                                          !.slides = slides]
    /\ UNCHANGED << jobs, nextId, s3Decks, s3Reports, tempReports, envVars,
                    sub, dl, del, rm, seen, poll, faults, hist, fnVars >>

\* pythonProcess.on('error'): the process could not be started; the temp file
\* is removed and a 500 response is sent.  The 'close' event is still to come.
ValidateSlidesError ==
    /\ pre.pc = "counting"
    /\ tempUploads' = Drop(tempUploads, pre.file)
    /\ pre' = [json(pre, validateSlidesResponse("spawn_error", pre.slides))
                 EXCEPT !.pc = "errored"]
    /\ UNCHANGED << jobs, nextId, s3Decks, s3Reports, tempReports, envVars,
                    sub, dl, del, rm, seen, poll, faults, hist, fnVars >>

\* pythonProcess.on('close'): the temp file is removed if it is still there
\* and the handler responds to the outcome; after 'error' the code is not 0
\* and the handler calls res.status(500).json(...) once more.
ValidateSlidesClose ==
    /\ pre.pc \in {"counting", "errored"}
    /\ tempUploads' = Drop(tempUploads, pre.file)
    /\ \E outcome \in ScriptOutcomes \ {"spawn_error"} :
         /\ pre.pc = "errored" => outcome = "exit_nonzero"
         /\ pre' = [json(pre, validateSlidesResponse(outcome, pre.slides))
                      EXCEPT !.pc = "done"]
    /\ UNCHANGED << jobs, nextId, s3Decks, s3Reports, tempReports, envVars,
                    sub, dl, del, rm, seen, poll, faults, hist, fnVars >>


\* FileUpload.tsx.  handleUpload has received the 200 response of the upload
\* and calls startPolling(response.data.analysisId).
startPolling(s) ==
    /\ poll.pc = "off"
    /\ sub[s].pc = "done"
    /\ sub[s].resp.code = 200
    /\ poll' = [IdlePoll EXCEPT !.pc = "on", !.userId = sub[s].userId,
                                !.id = sub[s].analysisId]
    /\ UNCHANGED << jobs, nextId, s3Decks, s3Reports, tempUploads, tempReports,
                    envVars, sub, dl, del, rm, seen, pre, faults, hist, fnVars >>

\* upperStatus === 'COMPLETED' || upperStatus === 'FAILED'
StopsPolling(status) == status \in {"COMPLETED", "FAILED"}

\* One run of the interval callback: the status request is answered and
\* stopPolling is called on COMPLETED or FAILED, or the request fails and the
\* catch calls stopPolling.  requests counts the requests modulo 2.
PollTick ==
    /\ poll.pc = "on"
    /\ \/ LET status == StatusResponse(jobs, poll.userId, poll.id).status
          IN  poll' = [poll EXCEPT !.requests = (@ + 1) % 2,
                                   !.pc = IF StopsPolling(status) THEN "stopped" ELSE "on"]
       \/ poll' = [poll EXCEPT !.requests = (@ + 1) % 2, !.pc = "stopped"]
    /\ UNCHANGED << jobs, nextId, s3Decks, s3Reports, tempUploads, tempReports,
                    envVars, sub, dl, del, rm, seen, pre, faults, hist, fnVars >>


(***************************************************************************)
(* Part 7.  The environment.                                               *)
(***************************************************************************)

\* Time passes.
Tick ==
    /\ now < MaxTime
    /\ now' = now + 1
    /\ UNCHANGED << jobs, nextId, s3Decks, s3Reports, tempUploads, tempReports,
                    gmailConfigured, sub, dl, del, faults, hist,
                    readVars, fnVars >>

\* A stored report is deleted from the bucket by someone else.
ExternalDelete ==
    /\ \E k \in DOMAIN s3Reports : s3Reports' = Drop(s3Reports, k)
    /\ UNCHANGED << jobs, nextId, s3Decks, tempUploads, tempReports, envVars,
                    sub, dl, del, faults, hist, readVars, fnVars >>

\* The download and delete requests of the uploading user
Requests ==
    \/ \E u \in SoloUsers, id \in RequestIds : DownloadStart(u, id)
    \/ DownloadCheck
    \/ DownloadFlip
    \/ \E d \in SoloDel :
          \/ \E u \in SoloUsers, id \in RequestIds : DeleteCheck(d, u, id)
          \/ DeleteExec(d)

\* One upload request, with download and delete requests for its Job and
\* the loss of its stored report
Next ==
    \/ \E s \in SoloSlots : Submit(s) \/ Pipeline(s)
    \/ Requests
    \/ ExternalDelete

Spec == Init /\ [][Next]_vars

\* Two upload requests in flight at once, in runs where no external call
\* fails, and the clock
NextPair ==
    \/ \E s \in Slots : Submit(s) \/ Pipeline(s)
    \/ Tick

SpecPair == InitNoFaults /\ [][NextPair]_vars

\* The request of slot s carries a ten-slide deck named a.pptx
PlainDeck(s) == sub'[s].originalFileName = <<"a">> /\ sub'[s].slides = 10

\* Two upload requests of plain decks, the second arriving after the first
\* was answered
NextSeq ==
    \/ \E s \in Slots :
          \/ /\ \A r \in Slots : r < s => sub[r].pc = "done"
             /\ Submit(s)
             /\ PlainDeck(s)
          \/ Pipeline(s)

SpecSeq == InitConfigured /\ [][NextSeq]_vars


\* One upload request of a plain deck and validate-slides requests, in flight
\* at once
NextPre ==
    \/ \E s \in SoloSlots : (Submit(s) /\ PlainDeck(s)) \/ Pipeline(s)
    \/ ValidateSlidesStart
    \/ ValidateSlidesError
    \/ ValidateSlidesClose

SpecPre == Init /\ [][NextPre]_vars

\* One upload request of a plain deck on its own.  Every await of the
\* handler settles, so a handler that can take a step eventually takes one.
NextLive == \E s \in SoloSlots : (Submit(s) /\ PlainDeck(s)) \/ Pipeline(s)

SpecLive ==
    /\ Init
    /\ [][NextLive]_vars
    /\ WF_vars(\E s \in SoloSlots : Pipeline(s))

\* One upload request of a plain deck, the polling of the page that sent it,
\* download requests of the same user and the loss of the stored report.
\* The handler's awaits settle and the interval timer keeps firing.
NextPoll ==
    \/ \E s \in SoloSlots : (Submit(s) /\ PlainDeck(s)) \/ Pipeline(s) \/ startPolling(s)
    \/ PollTick
    \/ \E u \in SoloUsers, id \in RequestIds : DownloadStart(u, id)
    \/ DownloadCheck
    \/ DownloadFlip
    \/ ExternalDelete

SpecPoll ==
    /\ InitNoFaults
    /\ [][NextPoll]_vars
    /\ WF_vars(\E s \in SoloSlots : Pipeline(s) \/ startPolling(s))
    /\ WF_vars(PollTick)

\* A response has been delivered: the locals of the finished request are gone
ResponseDelivered ==
    /\ \/ dl.pc = "done" /\ dl' = IdleDl /\ UNCHANGED << del, rm, seen, pre, poll >>
       \/ \E d \in DelSlots :
            /\ del[d].pc = "done"
            /\ del' = [del EXCEPT ![d] = IdleDel]
            /\ UNCHANGED << dl, rm, seen, pre, poll >>
       \/ rm.pc = "done" /\ rm' = IdleRm /\ UNCHANGED << dl, del, seen, pre, poll >>
       \/ seen # NoneSeen /\ seen' = NoneSeen /\ UNCHANGED << dl, del, rm, pre, poll >>
    /\ UNCHANGED << jobs, nextId, s3Decks, s3Reports, tempUploads, tempReports,
                    envVars, sub, faults, hist, fnVars >>

NoDownload == dl = IdleDl
NoDelete == \A d \in DelSlots : del[d] = IdleDel
NoRemove == rm = IdleRm
NoneRead == seen = NoneSeen
UploadsQuiet == \A s \in Slots : sub[s].pc \in {"idle", "done"}

\* The uploads of plain decks by two users answered one after the other, in
\* runs where no external call fails, and between them and afterwards the
\* requests of both users on the table: one request at a time, except that
\* delete requests run concurrently with each other.
NextOwners ==
    \/ \E s \in Slots :
          \/ /\ \A r \in Slots : r < s => sub[r].pc = "done"
             /\ NoDownload /\ NoDelete /\ NoRemove /\ NoneRead
             /\ Submit(s)
             /\ PlainDeck(s)
          \/ Pipeline(s)
    \/ /\ UploadsQuiet
       /\ \/ /\ NoDelete /\ NoRemove /\ NoneRead
             /\ \E u \in Users, id \in AllIds : DownloadStart(u, id)
          \/ DownloadCheck
          \/ DownloadFlip
          \/ /\ NoDownload /\ NoRemove /\ NoneRead
             /\ \E d \in DelSlots, u \in Users, id \in AllIds : DeleteCheck(d, u, id)
          \/ \E d \in DelSlots : DeleteExec(d)
          \/ /\ NoDownload /\ NoDelete /\ NoRemove
             /\ \E u \in Users, id \in AllIds : Poll(u, id)
          \/ /\ NoDownload /\ NoDelete /\ NoRemove
             /\ \E u \in Users : History(u)
          \/ /\ NoDownload /\ NoDelete /\ NoneRead
             /\ \E u \in Users : RemoveCount(u)
          \/ RemoveExec
          \/ ResponseDelivered
          \/ ExternalDelete

SpecOwners == InitNoFaults /\ [][NextOwners]_vars

\* One upload request of a plain deck in a run where no external call fails,
\* the loss of its stored report, and the uploader's download, delete and
\* remove-unavailable requests in flight at once
NextRemove ==
    \/ \E s \in SoloSlots : (Submit(s) /\ PlainDeck(s)) \/ Pipeline(s)
    \/ Requests
    \/ ExternalDelete
    \/ \E u \in SoloUsers : RemoveCount(u)
    \/ RemoveExec

SpecRemove == InitNoFaults /\ [][NextRemove]_vars

\* sendCompletionEmail called on its own: the Job of analysisId 1 is
\* COMPLETED with its report stored, or its row has been deleted, and the
\* arguments and the Gmail configuration are drawn from their sets
InitEmail ==
    \E name \in Names, recipientEmail \in {"", "user@example.com"},
       keyGiven \in BOOLEAN, rowPresent \in BOOLEAN :
      LET deck == DeckFilename(0, name)
          key == prepareReportData(name, 1, 0)
          analysis == AttachOverallScore(GoodResp)
          row == [NewRow(1, name, deck) EXCEPT
                     !.analysis = analysis,
                     !.overall_score = analysis.overall_score,
                     !.pdf_s3_key = key, !.status = "COMPLETED"]
          call == [IdleSlot EXCEPT
                     !.pc = "email", !.userId = 1, !.userEmail = recipientEmail,
                     !.originalFileName = name, !.slides = 10, !.s3KeyDeck = deck,
                     !.analysisId = 1, !.analysisResult = analysis,
                     !.pdfS3Key = IF keyGiven THEN key ELSE NoReport,
                     !.currentStage = "Email Notification"]
      IN  /\ jobs = IF rowPresent THEN Put(EmptyMap, 1, row) ELSE EmptyMap
          /\ nextId = 2
          /\ s3Decks = Put(EmptyMap, deck, 1)
          /\ s3Reports = Put(EmptyMap, key, 1)
          /\ tempUploads = EmptyMap
          /\ tempReports = EmptyMap
          /\ now = 0
          /\ gmailConfigured \in BOOLEAN
          /\ sub = [s \in Slots |-> IF s = 1 THEN call ELSE IdleSlot]
          /\ dl = IdleDl
          /\ del = [d \in DelSlots |-> IdleDel]
          /\ rm = IdleRm
          /\ seen = NoneSeen
          /\ pre = IdlePre
          /\ poll = IdlePoll
          /\ faults = [s \in Slots |-> 0]
          /\ hist = [s \in Slots |-> IF s = 1 THEN StageSeq ELSE <<>>]
          /\ fnIn = EmptyAnalysis
          /\ fnOut = NoResult

NextEmail == \E s \in SoloSlots : EmailPrepare(s) \/ EmailSend(s)

SpecEmail == InitEmail /\ [][NextEmail]_vars


(***************************************************************************)
(* Part 8.  calculateOverallScore and the validation of analyzeWithGemini, *)
(* each applied on its own to the arguments of a bounded set.              *)
(***************************************************************************)

MaxScored == 2      \* categories of an argument that are not missing
MaxDefects == 2     \* entries of a response that are not well-formed

serverVars == << jobs, nextId, s3Decks, s3Reports, tempUploads, tempReports,
                 now, gmailConfigured, sub, dl, del, rm, seen, pre, poll,
                 faults, hist >>

\* What a category entry can be: missing, an object without a numeric score,
\* or an object with an integer score, in range or out of it
CatEntries == {CatNonNumeric} \cup { CatScore(n) : n \in (0 - 1)..11 }

\* The analysis objects with at most n categories present
ScoreArguments(n) ==
    { [cats |-> [c \in Categories |-> IF c \in S THEN f[c] ELSE CatMissing],
       top |-> AllPresent, overall_score |-> NoScore] :
         <<S, f>> \in UNION { {S} \X [S -> CatEntries] :
                       S \in { X \in SUBSET Categories : Cardinality(X) <= n } } }

InitScore ==
    /\ Started(0)
    /\ gmailConfigured = TRUE
    /\ fnIn \in ScoreArguments(MaxScored)
    /\ fnOut = NoResult

\* calculateOverallScore(analysisResult)
ScoreCall ==
    /\ ~fnOut.done
    /\ fnOut' = [done |-> TRUE, ok |-> TRUE, score |-> calculateOverallScore(fnIn)]
    /\ UNCHANGED << serverVars, fnIn >>

SpecScore == InitScore /\ [][ScoreCall]_vars

\* The ways an entry of a response can be ill-formed
CatDefects == {CatMissing, CatNonNumeric, CatScore(0 - 1), CatScore(11)}
TopDefects == TopValues \ {"present"}

\* The parsed responses that differ from a well-formed one in at most n entries
Responses(n) ==
    { [cats |-> [c \in Categories |-> IF c \in D THEN g[c] ELSE CatScore(7)],
       top |-> [f \in TopFields |-> IF f \in D THEN h[f] ELSE "present"],
       overall_score |-> NoScore] :
         <<D, g, h>> \in UNION { {D} \X [D \cap Categories -> CatDefects]
                                    \X [D \cap TopFields -> TopDefects] :
                       D \in { X \in SUBSET (Categories \cup TopFields) :
                                 Cardinality(X) <= n } } }

InitValidate ==
    /\ Started(0)
    /\ gmailConfigured = TRUE
    /\ fnIn \in Responses(MaxDefects)
    /\ fnOut = NoResult

\* analyzeWithGemini from JSON.parse on: the validation throws, or the
\* result is returned with its overall_score attached
ValidateCall ==
    /\ ~fnOut.done
    /\ fnOut' = IF ValidationFails(fnIn)
                THEN [done |-> TRUE, ok |-> FALSE, score |-> 0]
                ELSE [done |-> TRUE, ok |-> TRUE,
                      score |-> AttachOverallScore(fnIn).overall_score]
    /\ UNCHANGED << serverVars, fnIn >>

SpecValidate == InitValidate /\ [][ValidateCall]_vars


\* The file checks of the upload page and of multer, applied to the files of
\* a bounded set.  A file is its extension, the MIME type the browser or the
\* client declares for it, and its size in bytes; viaPage tells whether it is
\* submitted through the upload page or posted to the endpoint directly.
maxSize == 50 * 1024 * 1024
Extensions == {"ppt", "pptx", "PPTX", "pdf"}
validTypes ==
    {"application/vnd.ms-powerpoint",
     "application/vnd.openxmlformats-officedocument.presentationml.presentation"}
MimeTypes == validTypes \cup {"application/pdf", "text/plain"}
FileSizes == {1, maxSize, maxSize + 1}
Files == [ext : Extensions, mime : MimeTypes, size : FileSizes, viaPage : BOOLEAN]

\* The extension in lower case
LowerCase(ext) == IF ext = "PPTX" THEN "pptx" ELSE ext

\* /\.(ppt|pptx)$/i.test(path.extname(file.originalname))
allowedExtensions(ext) == LowerCase(ext) \in {"ppt", "pptx"}

\* multer: the fileFilter refuses the file (400), or the stream exceeds
\* limits.fileSize (413), or the file is stored (0)
upload(file) ==
    IF ~allowedExtensions(file.ext) THEN 400
    ELSE IF file.size > maxSize THEN 413
    ELSE 0

\* handleFile up to the validate-slides request: the file is refused when
\* its type is not a PowerPoint type and its name ends in neither .ppt nor
\* .pptx, or when it is larger than maxSize
handleFile(file) ==
    /\ ~(file.mime \notin validTypes /\ file.ext # "ppt" /\ file.ext # "pptx")
    /\ ~(file.size > maxSize)

InitFile ==
    /\ Started(0)
    /\ gmailConfigured = TRUE
    /\ fnIn \in Files
    /\ fnOut = NoResult

\* The file is submitted.  The page refuses it and sends nothing, or the
\* request is sent and multer refuses it, or the handler is entered with the
\* stored file.  fnOut.score holds the status code of a refusal by the server.
UploadFile ==
    /\ ~fnOut.done
    /\ sub[1].pc = "idle"
    /\ IF fnIn.viaPage /\ ~handleFile(fnIn)
       THEN /\ fnOut' = [done |-> TRUE, ok |-> FALSE, score |-> 0]
            /\ UNCHANGED << sub, tempUploads >>
       ELSE IF upload(fnIn) # 0
       THEN /\ fnOut' = [done |-> TRUE, ok |-> FALSE, score |-> upload(fnIn)]
            /\ UNCHANGED << sub, tempUploads >>
       ELSE /\ fnOut' = [done |-> TRUE, ok |-> TRUE, score |-> 0]
            /\ LET file == DeckFilename(now, <<"a">>)
               IN  /\ tempUploads' = Put(tempUploads, file, 1)
                   /\ sub' = [sub EXCEPT ![1] =
                                [IdleSlot EXCEPT !.pc = "save", !.userId = 1,
                                                 !.userEmail = "user@example.com",
                                                 !.originalFileName = <<"a">>,
                                                 !.slides = 10,
                                                 !.s3KeyDeck = file,
                                                 !.currentStage = "Database Initialization"]]
    /\ UNCHANGED << jobs, nextId, s3Decks, s3Reports, tempReports, envVars,
                    dl, del, faults, hist, readVars, fnIn >>

NextFile == UploadFile \/ \E s \in SoloSlots : SaveAnalysis(s)

SpecFile == InitFile /\ [][NextFile]_vars


\* The range check of handleFile applied to the slide counts up to MaxCount
MaxCount == 60

\* The message handleFile sets for a count it refuses
slideCountMessage(n) ==
    IF n < MinSlides THEN "Slides too low"
    ELSE IF n > MaxSlides THEN "Slides too high"
    ELSE ""

InitSlides ==
    /\ Started(0)
    /\ gmailConfigured = TRUE
    /\ fnIn \in 0..MaxCount
    /\ fnOut = NoResult

\* handleFile from the response of validate-slides on: the file is selected,
\* or an error message is set
CheckSlideCount ==
    /\ ~fnOut.done
    /\ fnOut' = [done |-> TRUE, ok |-> SlideCountAccepted(fnIn), score |-> 0,
                 message |-> IF SlideCountAccepted(fnIn) THEN ""
                             ELSE slideCountMessage(fnIn)]
    /\ UNCHANGED << serverVars, fnIn >>

SpecSlides == InitSlides /\ [][CheckSlideCount]_vars


\* One run of extract_text.py as runTextExtraction sees it: whether spawn
\* fails to start the process, the exit code, and what has arrived on the two
\* streams by the time of 'close'.  A stream holds nothing, a text that is
\* no JSON, or a JSON document with a data member, which may be an empty
\* list, or with an error member.
NoOutput == [kind |-> "empty", error |-> "", data |-> <<>>]
Garbage == [kind |-> "text", error |-> "", data |-> <<>>]
DataDoc == [kind |-> "json", error |-> "", data |-> <<"slide 1", "slide 2">>]
NoSlidesDoc == [kind |-> "json", error |-> "", data |-> <<>>]
ErrorDoc == [kind |-> "json", error |-> "File is not a presentation", data |-> <<>>]
Outputs == {NoOutput, Garbage, DataDoc, NoSlidesDoc, ErrorDoc}
ProcessRuns ==
    [spawnFails : {FALSE}, code : {0, 1, 2}, stdout : Outputs, stderr : Outputs]
        \cup {[spawnFails |-> TRUE, code |-> -2, stdout |-> NoOutput, stderr |-> NoOutput]}

\* The promise of runTextExtraction before it is settled.  calls counts the
\* calls of resolve and reject, settles the changes of the promise's state.
PendingPromise ==
    [state |-> "pending", value |-> <<>>, message |-> "", error |-> "", code |-> <<>>,
     calls |-> 0, settles |-> 0, errorSeen |-> FALSE, closeSeen |-> FALSE]

\* resolve(value) / reject(new Error(...)) on promise p: the first call
\* settles the promise, every later call is ignored
settle(p, state, value, message, error, code) ==
    IF p.state = "pending"
    THEN [p EXCEPT !.state = state, !.value = value, !.message = message,
                   !.error = error, !.code = code,
                   !.calls = p.calls + 1, !.settles = p.settles + 1]
    ELSE [p EXCEPT !.calls = p.calls + 1]

\* pythonProcess.on('close', (code) => ...): with code 0 the standard output
\* is parsed, and its error member rejects, else its data member resolves;
\* with another code the standard error is parsed for an error member, and
\* without one the rejection names the code and quotes both streams.
onClose(p, run) ==
    IF run.code = 0
    THEN IF run.stdout.kind # "json"
         THEN settle(p, "rejected", <<>>, "Failed to parse extraction script output", "", <<>>)
         ELSE IF run.stdout.error # ""
         THEN settle(p, "rejected", <<>>, "Extraction script error", run.stdout.error, <<>>)
         ELSE settle(p, "resolved", run.stdout.data, "", "", <<>>)
    ELSE IF run.stderr.kind = "json" /\ run.stderr.error # ""
         THEN settle(p, "rejected", <<>>, "Extraction script failed", run.stderr.error, <<>>)
         ELSE settle(p, "rejected", <<>>, "Python script failed", "", << run.code >>)

InitExtract ==
    /\ Started(0)
    /\ gmailConfigured = TRUE
    /\ fnIn \in ProcessRuns
    /\ fnOut = PendingPromise

\* pythonProcess.on('error', ...): the process could not be started
ExtractionError ==
    /\ fnIn.spawnFails
    /\ ~fnOut.errorSeen
    /\ ~fnOut.closeSeen
    /\ fnOut' = [settle(fnOut, "rejected", <<>>, "Failed to start extraction script", "", <<>>)
                    EXCEPT !.errorSeen = TRUE]
    /\ UNCHANGED << serverVars, fnIn >>

\* The 'close' event, which follows the end of the process and of its
\* streams, and follows 'error' when the process could not be started
ExtractionClose ==
    /\ ~fnOut.closeSeen
    /\ fnIn.spawnFails => fnOut.errorSeen
    /\ fnOut' = [onClose(fnOut, fnIn) EXCEPT !.closeSeen = TRUE]
    /\ UNCHANGED << serverVars, fnIn >>

NextExtract == ExtractionError \/ ExtractionClose

SpecExtract == InitExtract /\ [][NextExtract]_vars


\* The limiter of the upload route: rateLimit({ windowMs, max, keyGenerator })
\* with the library's memory store, which counts the requests of each key and
\* forgets the counts when the window has elapsed.
max == 10
MaxExcess == 2      \* requests a user sends beyond max within one window
MaxWindows == 1     \* windows that elapse

\* The requests the limiter sees have passed authMiddleware.  The users share
\* one address.
Request(u) == [userId |-> u, ip |-> 1]
Keys == [kind : {"user"}, id : Users] \cup [kind : {"ip"}, id : {1}]

\* Variant that keys every request by its address
keyGeneratorByIp(req) == [kind |-> "ip", id |-> req.ip]

\* keyGenerator: (req, res) => req.user?.userId || req.ip
keyGenerator(req) ==
    IF req.userId # 0 THEN [kind |-> "user", id |-> req.userId]
    ELSE [kind |-> "ip", id |-> req.ip]

\* The store at start.  fnOut counts, for each user, the requests sent and
\* passed on in the current window, and over all windows the requests passed
\* on to multer and those multer refused; code is the last status the
\* limiter or multer answered with.
EmptyStore == [hits |-> [k \in Keys |-> 0], windows |-> 0]
NoRequests ==
    [sent |-> [u \in Users |-> 0], admitted |-> [u \in Users |-> 0],
     passed |-> [u \in Users |-> 0], refused |-> [u \in Users |-> 0],
     code |-> 0]

\* The requests of user u that entered the upload handler
Entered(u) == Cardinality({s \in Slots : sub[s].pc # "idle" /\ sub[s].userId = u})

\* A request of user u has passed the limiter and has not reached multer's
\* callback yet
InFlight(u) == fnOut.passed[u] > fnOut.refused[u] + Entered(u)

InitLimit ==
    /\ Started(MaxFaults)
    /\ gmailConfigured = TRUE
    /\ fnIn = EmptyStore
    /\ fnOut = NoRequests

\* app.post('/api/analysis/upload', authMiddleware, uploadLimiter, ...): the
\* limiter counts the request under its key and answers 429 when the count
\* exceeds max, else passes the request on to multer.  A user sends the next
\* request when the last one has reached the handler or was refused.
uploadLimiter(u) ==
    LET key == keyGenerator(Request(u))
        totalHits == fnIn.hits[key] + 1
    IN  /\ ~InFlight(u)
        /\ fnOut.sent[u] < max + MaxExcess
        /\ fnIn' = [fnIn EXCEPT !.hits[key] = totalHits]
        /\ IF totalHits > max
           THEN fnOut' = [fnOut EXCEPT !.sent[u] = @ + 1, !.code = 429]
           ELSE fnOut' = [fnOut EXCEPT !.sent[u] = @ + 1, !.admitted[u] = @ + 1,
                                       !.passed[u] = @ + 1, !.code = 0]
        /\ UNCHANGED serverVars

\* A file whose extension the fileFilter of multer refuses
RefusedFile ==
    [ext |-> "pdf", mime |-> "application/pdf", size |-> 1, viaPage |-> FALSE]

\* upload(req, res, function (uploadError) ...) with a file multer refuses:
\* the handler answers 400 and nothing was stored
MulterRefuses(u) ==
    /\ InFlight(u)
    /\ fnOut' = [fnOut EXCEPT !.refused[u] = @ + 1, !.code = upload(RefusedFile)]
    /\ UNCHANGED << serverVars, fnIn >>

\* The window of a key has elapsed: the store forgets the key's count
WindowElapsed ==
    /\ fnIn.windows < MaxWindows
    /\ \E k \in Keys :
          /\ fnIn.hits[k] > 0
          /\ fnIn' = [fnIn EXCEPT !.hits[k] = 0, !.windows = @ + 1]
          /\ fnOut' = [fnOut EXCEPT
                         !.sent = [u \in Users |->
                                     IF keyGenerator(Request(u)) = k THEN 0 ELSE @[u]],
                         !.admitted = [u \in Users |->
                                         IF keyGenerator(Request(u)) = k THEN 0 ELSE @[u]]]
    /\ UNCHANGED serverVars

\* Upload requests of two users behind the limiter.  The files of user 2 and
\* all files but one of user 1 are files multer refuses; one plain deck of
\* user 1 enters the handler, which creates its Job.
NextLimit ==
    \/ \E u \in Users : uploadLimiter(u) \/ MulterRefuses(u)
    \/ WindowElapsed
    \/ \E s \in SoloSlots :
          \/ /\ InFlight(1)
             /\ Submit(s)
             /\ PlainDeck(s)
          \/ SaveAnalysis(s)

SpecLimit == InitLimit /\ [][NextLimit]_vars


\* The handlers and helpers that take a client from the pool, each as the
\* statements of its try block: client = await pool.connect(), a query, a
\* conditional return, the two S3 calls of the download (HeadObject and
\* getSignedUrl, with a catch of their own), and the end of the block.
Programs ==
    [ deleteRecord |-> << "connect", "query", "return_if", "query", "return" >>,
      history |-> << "connect", "query", "return" >>,
      removeUnavailable |-> << "connect", "query", "query", "return" >>,
      download |-> << "connect", "query", "return_if", "return_if", "return_if",
                      "s3", "s3", "return" >>,
      status |-> << "connect", "query", "return_if", "return" >>,
      saveAnalysisToDB |-> << "connect", "query", "return" >>,
      updateAnalysisResultInDB |-> << "connect", "query", "return" >>,
      updatePdfKeyAndComplete |-> << "connect", "query", "return" >>,
      updateAnalysisStatus |-> << "connect", "query", "return" >>,
      updateEmailStatus |-> << "connect", "query", "return" >> ]

\* The helpers whose catch block throws a new Error
Rethrows == {"saveAnalysisToDB", "updateAnalysisResultInDB", "updatePdfKeyAndComplete"}

\* Variant in which a return leaves the function at once
afterReturnSkipsFinally == "finished"

\* A return inside the try block runs the finally block before the function
\* is left
afterReturn == "finally"

\* A call before its first statement.  client tells whether the variable
\* holds a client; acquired and released count the clients taken from the
\* pool and given back by this call.
NoCall ==
    [at |-> 1, phase |-> "try", client |-> FALSE, acquired |-> 0, released |-> 0,
     outcome |-> ""]

InitPool ==
    /\ Started(0)
    /\ gmailConfigured = TRUE
    /\ fnIn \in DOMAIN Programs
    /\ fnOut = NoCall

\* One statement of the try block.  pool.connect and the queries resolve or
\* throw; an S3 call resolves or throws into the inner catch.
PoolTry ==
    /\ fnOut.phase = "try"
    /\ LET st == Programs[fnIn][fnOut.at]
           next == [fnOut EXCEPT !.at = @ + 1]
           thrown == [fnOut EXCEPT !.phase = "catch"]
       IN  \/ /\ st = "connect"
              /\ \/ fnOut' = [next EXCEPT !.client = TRUE, !.acquired = @ + 1]
                 \/ fnOut' = thrown
           \/ /\ st = "query"
              /\ fnOut' \in {next, thrown}
           \/ /\ st = "return_if"
              /\ \/ fnOut' = next
                 \/ fnOut' = [fnOut EXCEPT !.phase = afterReturn, !.outcome = "early"]
           \/ /\ st = "s3"
              /\ \/ fnOut' = next
                 \/ fnOut' = [fnOut EXCEPT !.phase = "inner"]
           \/ /\ st = "return"
              /\ fnOut' = [fnOut EXCEPT !.phase = afterReturn, !.outcome = "returned"]
    /\ UNCHANGED << serverVars, fnIn >>

\* catch (s3Error) of the download: the UPDATE on the client held, whose
\* failure is caught on the spot, and return res.status(404)
PoolInnerCatch ==
    /\ fnOut.phase = "inner"
    /\ fnOut' = [fnOut EXCEPT !.phase = afterReturn, !.outcome = "early"]
    /\ UNCHANGED << serverVars, fnIn >>

\* The catch block: the error is answered with 500 or swallowed, or a new
\* Error is thrown
PoolCatch ==
    /\ fnOut.phase = "catch"
    /\ fnOut' = [fnOut EXCEPT !.phase = "finally",
                              !.outcome = IF fnIn \in Rethrows THEN "rethrown"
                                          ELSE "caught"]
    /\ UNCHANGED << serverVars, fnIn >>

\* finally { if (client) client.release(); }
PoolFinally ==
    /\ fnOut.phase = "finally"
    /\ fnOut' = [fnOut EXCEPT !.phase = "finished",
                              !.released = IF fnOut.client THEN @ + 1 ELSE @]
    /\ UNCHANGED << serverVars, fnIn >>

NextPool == PoolTry \/ PoolInnerCatch \/ PoolCatch \/ PoolFinally

SpecPool == InitPool /\ [][NextPool]_vars


(***************************************************************************)
(* Part 9.  Properties.                                                    *)
(***************************************************************************)

\* The request of slot s was answered with the success / failure payload
Succeeded(s) == sub[s].pc = "done" /\ sub[s].resp.code = 200
Failed(s) == sub[s].pc = "done" /\ sub[s].resp.code = 500

\* C1: a submission in which no call fails takes its Job's persisted status
\* through PENDING, UPLOADING_DECK, EXTRACTING_TEXT, ANALYZING_AI,
\* SAVING_ANALYSIS, GENERATING_PDF, UPLOADING_PDF, COMPLETED in this order,
\* each value once, and, when it is answered with the success payload, leaves
\* the Job COMPLETED with its analysis and its report key stored.
C1_StatusSequence ==
    \A s \in Slots :
        faults[s] = 0 =>
          /\ \A i \in 1..Len(hist[s]) :
                \/ i <= Len(StageSeq) /\ hist[s][i] = StageSeq[i]
                \/ i = Len(hist[s]) /\ hist[s][i] = "FAILED"
          /\ Succeeded(s) =>
                /\ hist[s] = StageSeq
                /\ sub[s].analysisId \in DOMAIN jobs
                /\ LET row == jobs[sub[s].analysisId]
                   IN  /\ row.status = "COMPLETED"
                       /\ row.analysis # EmptyAnalysis
                       /\ row.analysis = sub[s].analysisResult
                       /\ row.pdf_s3_key # NoReport

C1_Witness ==
    \E s \in Slots : Succeeded(s) /\ faults[s] = 0 /\ Len(hist[s]) = Len(StageSeq)

\* C2 (as the code has it): in every reachable state a Job's pdf_s3_key is
\* set exactly when its status is COMPLETED or FILE_UNAVAILABLE.
C2_ReportKeyIffCompletedOrUnavailable ==
    \A id \in DOMAIN jobs :
        jobs[id].pdf_s3_key # NoReport
            <=> jobs[id].status \in {"COMPLETED", "FILE_UNAVAILABLE"}

\* C2 (as stated): in every reachable state a Job's pdf_s3_key is set exactly
\* when its status is COMPLETED.
C2_ReportKeyIffCompleted ==
    \A id \in DOMAIN jobs :
        jobs[id].pdf_s3_key # NoReport <=> jobs[id].status = "COMPLETED"

C2_Witness ==
    \E id \in DOMAIN jobs :
        /\ jobs[id].status = "FILE_UNAVAILABLE"
        /\ jobs[id].pdf_s3_key # NoReport
        /\ dl.pc = "done" /\ dl.resp.errorType = "FILE_ACCESS_ERROR"

\* The position of a status in the stage sequence
Rank(status) == CHOOSE i \in 1..Len(StageSeq) : StageSeq[i] = status

Terminal == {"FAILED", "FILE_UNAVAILABLE"}

\* from -> to keeps the status, moves it forward in the stage sequence, or
\* jumps from a status of the sequence to FAILED or FILE_UNAVAILABLE
Forward(from, to) ==
    \/ from = to
    \/ /\ from \notin Terminal
       /\ to \in Terminal \/ Rank(to) > Rank(from)

\* C3: in every step (of the pipeline, a download or a delete) the status of
\* a Job, as its row holds it and as the status endpoint reports it to the
\* owner, stays, moves forward in the stage sequence or jumps to FAILED or
\* FILE_UNAVAILABLE; from FAILED and FILE_UNAVAILABLE it never changes.
C3_StatusNeverReverts ==
    [][ \A id \in DOMAIN jobs \cap DOMAIN jobs' :
          /\ Forward(jobs[id].status, jobs'[id].status)
          /\ Forward(StatusOf(jobs[id].owner, id), StatusOf(jobs[id].owner, id)') ]_vars

C3_Witness ==
    /\ dl.pc = "flip"
    /\ dl.analysisId \in DOMAIN jobs
    /\ jobs[dl.analysisId].status = "FILE_UNAVAILABLE"

\* C4: when a stage raises after the Job row was created and the row becomes
\* FAILED, its failure_reason tells which named stage failed: two FAILED Jobs
\* that hold the same failure_reason failed at the same stage.
C4_FailureNamesStage ==
    \A s, r \in Slots :
        ( /\ Failed(s) /\ sub[s].analysisId \in DOMAIN jobs
          /\ Failed(r) /\ sub[r].analysisId \in DOMAIN jobs
          /\ jobs[sub[s].analysisId].status = "FAILED"
          /\ jobs[sub[r].analysisId].status = "FAILED"
          /\ jobs[sub[s].analysisId].failure_reason
               = jobs[sub[r].analysisId].failure_reason )
           => sub[s].resp.stageFailed = sub[r].resp.stageFailed

\* C5: no Job row is ever created for a deck whose slide count is outside
\* [5, 35].
C5_NoJobOutsideRange ==
    \A s \in Slots : sub[s].analysisId # 0 => SlideCountAccepted(sub[s].slides)

\* C6: two submissions are isolated.  The object stored under the report key
\* of a COMPLETED Job was rendered from that Job, and the local report a
\* request is about to upload is there and is the one it rendered.
C6_SubmissionsIsolated ==
    /\ \A id \in DOMAIN jobs :
          jobs[id].status = "COMPLETED"
             => /\ jobs[id].pdf_s3_key \in DOMAIN s3Reports
                /\ s3Reports[jobs[id].pdf_s3_key] = id
    /\ \A s \in Slots :
          sub[s].pc = "upload_pdf"
             => /\ sub[s].pdfLocalPath \in DOMAIN tempReports
                /\ tempReports[sub[s].pdfLocalPath] = sub[s].analysisId

\* C7: callGeminiWithRetry returns the text of the first successful call after
\* k failed calls, k in {0, 1, 2}, having made exactly k + 1 attempts, and
\* raises its error only when three attempts have failed.
C7_RetryAttempts ==
    \A s \in Slots :
        /\ sub[s].llm = "ok"
              => /\ sub[s].retries \in 0..MaxRetries
                 /\ sub[s].attempts = sub[s].retries + 1
                 /\ sub[s].responseText \in LLMResponses
                 /\ sub[s].pc = "catch" => ValidationFails(sub[s].responseText)
        /\ sub[s].llm = "exhausted"
              => /\ sub[s].retries = MaxRetries + 1
                 /\ sub[s].attempts = MaxRetries + 1

C7_Witness ==
    \E s \in Slots :
        /\ sub[s].llm = "ok"
        /\ sub[s].retries = 2
        /\ sub[s].attempts = 3
        /\ sub[s].pc = "st_save"

RECURSIVE WeightedPoints(_, _)
\* The sum of score * percentage over the categories i.. with a usable score
WeightedPoints(cats, i) ==
    IF i > Len(CategoryOrder) THEN 0
    ELSE (IF ScoreUsable(cats[CategoryOrder[i]])
          THEN cats[CategoryOrder[i]].score * WeightPct[i]
          ELSE 0) + WeightedPoints(cats, i + 1)

\* round(100 * sum((score / 10) * weight)), in exact arithmetic, halves upward
ExactScore(r) == (WeightedPoints(r.cats, 1) + 5) \div 10

\* C8: calculateOverallScore returns round(100 * sum((score_i / 10) *
\* weight_i)) over the categories with a usable score, a value in [0, 100].
C8_ScoreEqualsFormula ==
    fnOut.done => /\ fnOut.score = ExactScore(fnIn)
                  /\ fnOut.score \in 0..100

\* C9: the overall_score column of a Job, the overall_score inside its stored
\* analysis and the overallScore of the success payload all equal
\* calculateOverallScore of the nine category scores; an overall_score the
\* LLM response carried reaches none of them.
C9_ScoreRecomputed ==
    /\ \A id \in DOMAIN jobs :
          IF jobs[id].analysis = EmptyAnalysis
          THEN jobs[id].overall_score = 0
          ELSE LET computed == calculateOverallScore(jobs[id].analysis)
               IN  /\ jobs[id].overall_score = computed
                   /\ jobs[id].analysis.overall_score = computed
    /\ \A s \in Slots :
          sub[s].resp.code = 200
             => sub[s].resp.overallScore = calculateOverallScore(sub[s].analysisResult)

C9_Witness ==
    \E s \in Slots :
        /\ Succeeded(s)
        /\ sub[s].analysisResult.cats = GoodResp.cats
        /\ GoodResp.overall_score = 99
        /\ sub[s].resp.overallScore = 70
        /\ sub[s].analysisId \in DOMAIN jobs
        /\ jobs[sub[s].analysisId].overall_score = 70

\* C10: the validation accepts a parsed response exactly when no present
\* category has a non-numeric or out-of-range score and none of the six
\* top-level fields is absent or null; missing categories are accepted, and
\* the score of an accepted response counts each of them as 0.
C10_ValidationPolicy ==
    fnOut.done =>
      LET invalid == \E c \in Categories :
                        /\ fnIn.cats[c].present
                        /\ \/ ~fnIn.cats[c].numeric
                           \/ fnIn.cats[c].score < 0
                           \/ fnIn.cats[c].score > 10
          topMissing == \E f \in TopFields : fnIn.top[f] # "present"
          zeroed == [fnIn EXCEPT !.cats =
                        [c \in Categories |->
                            IF fnIn.cats[c].present THEN fnIn.cats[c] ELSE CatScore(0)]]
      IN  /\ fnOut.ok <=> ~(invalid \/ topMissing)
          /\ fnOut.ok => fnOut.score = calculateOverallScore(zeroed)

C10_Witness ==
    /\ fnOut.done
    /\ fnOut.ok
    /\ \E c \in Categories : ~fnIn.cats[c].present

C13_UnavailableOnlyWhenMissing ==
    ( /\ dl.pc = "done"
      /\ dl.resp.errorType = "FILE_ACCESS_ERROR"
      /\ ~dl.dbFailed
      /\ dl.prevStatus \notin {"", "FILE_UNAVAILABLE"} ) =>
        dl.prevStatus = "COMPLETED" /\ dl.s3Error = "NotFound"

\* C14: the answer to a status request is the answer the endpoint gives on
\* the caller's own rows alone: for an id that is absent or owned by
\* another user it is 200 with status PENDING.
C14_StatusHidesForeignJobs ==
    [][ (seen' # seen /\ seen'.op = "status") =>
          LET u == seen'.userId
              id == seen'.id
              own == StatusResponse(OwnRows(jobs, u), u, id)
          IN  /\ seen'.code = own.code /\ seen'.status = own.status
              /\ id \notin DOMAIN OwnRows(jobs, u) =>
                    seen'.code = 200 /\ seen'.status = "PENDING" ]_vars

C14_Witness ==
    /\ seen.op = "status"
    /\ seen.status = "PENDING"
    /\ seen.id \in DOMAIN jobs
    /\ jobs[seen.id].owner # seen.userId
    /\ jobs[seen.id].status = "COMPLETED"

\* C15: a delete request for an id that selects no row of the caller, absent
\* or owned by another user, is answered 404 and changes no row; and the
\* DELETE of a request removes at most the row of its id owned by its caller
\* and changes no other row.
C15_ForeignDeleteNotFound ==
    [][ \A d \in DelSlots :
          /\ (del'[d] # del[d] /\ del[d].pc # "checked" /\ del'[d].pc # "idle"
                /\ ~(del'[d].analysisId \in DOMAIN OwnRows(jobs, del'[d].userId))) =>
                /\ del'[d] = [IdleDel EXCEPT !.pc = "done", !.resp = 404,
                                             !.userId = del'[d].userId,
                                             !.analysisId = del'[d].analysisId]
                /\ jobs' = jobs
          /\ (del[d].pc = "checked" /\ del'[d] # del[d]) =>
                \A id \in DOMAIN jobs :
                   IF id \in DOMAIN jobs'
                   THEN jobs'[id] = jobs[id]
                   ELSE id = del[d].analysisId /\ jobs[id].owner = del[d].userId ]_vars

C15_Witness ==
    \E d \in DelSlots :
      /\ del[d].pc = "done"
      /\ del[d].resp = 404
      /\ del[d].analysisId \in DOMAIN jobs
      /\ jobs[del[d].analysisId].owner # del[d].userId

\* The rows of other users than userId are the same in J and K
OthersUntouched(J, K, userId) ==
    \A id \in DOMAIN J :
       J[id].owner # userId => id \in DOMAIN K /\ K[id] = J[id]

\* C16: a history request returns the caller's rows only; a download request
\* goes on to S3 only with the report key of a row of its caller, returns
\* that key's URL only, and changes no row of another user; a
\* remove-unavailable request changes and deletes no row of another user.
C16_OwnerScoped ==
    [][ /\ (seen' # seen /\ seen'.op = "history") =>
              /\ seen'.rows = HistoryRows(OwnRows(jobs, seen'.userId), seen'.userId)
              /\ \A id \in seen'.rows : jobs[id].owner = seen'.userId
        /\ (dl' # dl /\ dl'.pc # "idle") =>
              /\ OthersUntouched(jobs, jobs', dl'.userId)
              /\ dl'.pc = "head" =>
                    /\ OwnRow(dl'.userId, dl'.analysisId)
                    /\ dl'.pdfS3Key = jobs[dl'.analysisId].pdf_s3_key
              /\ dl'.resp.url # NoReport => dl'.resp.url = dl.pdfS3Key
        /\ (rm' # rm /\ rm'.pc # "idle") =>
              /\ OthersUntouched(jobs, jobs', rm'.userId)
              /\ rm'.pc = "done" =>
                    \A id \in DOMAIN jobs \ DOMAIN jobs' :
                       jobs[id].owner = rm.userId ]_vars

C16_Witness ==
    /\ rm.pc = "done"
    /\ rm.count = 1
    /\ \E id \in DOMAIN jobs :
         jobs[id].owner # rm.userId /\ jobs[id].status = "FILE_UNAVAILABLE"

\* C17: a delete request answered with success is one whose DELETE removed
\* the row: a delete that finds the row already deleted is not answered
\* with success.
C17_SuccessMeansDeleted ==
    \A d \in DelSlots :
       (del[d].pc = "done" /\ del[d].resp = 200) => del[d].rowCount = 1

\* C18: the transport is invoked for a submission only after the completion
\* update has set the status of the Job's row to COMPLETED.
C18_EmailOnlyAfterCompleted ==
    \A s \in Slots :
       sub[s].pc = "email_send" =>
          \E i \in 1..Len(hist[s]) : hist[s][i] = "COMPLETED"

\* The calls that fail on a failure path of sendCompletionEmail itself
EmailFaults(outcome) ==
    IF outcome \in {"sign_failed", "transport_failed"} THEN 1 ELSE 0

C20_RespondsOnTerminalStatus ==
    \A s \in Slots :
       (sub[s].pc = "done" /\ sub[s].respStatus # "") =>
          \/ sub[s].resp.code = 200 /\ sub[s].respStatus = "COMPLETED"
          \/ sub[s].resp.code = 500 /\ sub[s].respStatus = "FAILED"


\* C21: a step of the validate-slides handler leaves the table, the bucket
\* and the LLM attempts of every upload request as they were, and its
\* response carries the slide count the script reported and nothing else, or
\* an error and no count.
C21_ValidateSlidesOnlyCounts ==
    [][pre' # pre =>
         /\ jobs' = jobs
         /\ nextId' = nextId
         /\ s3Decks' = s3Decks
         /\ s3Reports' = s3Reports
         /\ \A s \in Slots : sub'[s].attempts = sub[s].attempts
         /\ pre'.pc = "done" =>
              \/ /\ pre'.resp.code = 200
                 /\ pre'.resp.slideCount = pre.slides
                 /\ pre'.resp.error = ""
              \/ /\ pre'.resp.code \in {400, 413, 500}
                 /\ pre'.resp.slideCount = NoCount
                 /\ pre'.resp.error # ""]_vars

C21_Witness ==
    /\ pre.pc = "done"
    /\ pre.file # NoDeck
    /\ pre.resp.code = 500
    /\ sub[1].pc = "ai"
    /\ sub[1].analysisId \in DOMAIN jobs

\* C22: a Job exists only for a file whose extension and MIME type are both a
\* presentation format and whose size is at most 50 MiB.
C22_NoJobUnlessAllThree ==
    jobs # EmptyMap =>
        /\ allowedExtensions(fnIn.ext)
        /\ fnIn.mime \in validTypes
        /\ fnIn.size <= maxSize

\* C23: the slide-count check accepts a count exactly when it is between 5
\* and 35, both included; a smaller count is refused as too low and a larger
\* one as too high.
C23_AcceptedIffInRange ==
    fnOut.done =>
        /\ fnOut.ok <=> (5 <= fnIn /\ fnIn <= 35)
        /\ fnIn < 5 => fnOut.message = "Slides too low"
        /\ fnIn > 35 => fnOut.message = "Slides too high"
        /\ fnOut.ok => fnOut.message = ""

C23_Witness == fnOut.done /\ fnIn = 35 /\ fnOut.ok

\* C24: two failure payloads that name the same failed stage carry the same
\* message.
C24_MessageNamesOnlyStage ==
    \A s, r \in Slots :
        /\ sub[s].resp.code = 500
        /\ sub[r].resp.code = 500
        /\ sub[s].resp.stageFailed = sub[r].resp.stageFailed
        => sub[s].resp.message = sub[r].resp.message

\* C25: once a request has created its Job, the request is eventually
\* answered with the Job's row holding COMPLETED or FAILED.
C25_JobEndsTerminal ==
    \A s \in SoloSlots :
        (sub[s].analysisId # 0) ~>
            (/\ sub[s].pc = "done"
             /\ PersistedStatus(jobs, sub[s].analysisId) \in {"COMPLETED", "FAILED"})

\* C26: while the page polls a Job whose row holds COMPLETED, FAILED or
\* FILE_UNAVAILABLE, the polling eventually stops.
C26_PollingStopsOnTerminal ==
    (/\ poll.pc = "on"
     /\ PersistedStatus(jobs, poll.id) \in {"COMPLETED", "FAILED", "FILE_UNAVAILABLE"})
        ~> (poll.pc = "stopped")

\* C27: whenever a request is about to run the side effect of a stage, the
\* row of its Job holds the status of that stage.
C27_StatusPersistedBeforeEffect ==
    \A s \in Slots : \A st \in DOMAIN StageStatus :
        sub[s].pc = StageEffect[st] =>
            PersistedStatus(jobs, sub[s].analysisId) = StageStatus[st]

\* C28: once a request is answered, temp-uploads holds no copy of its deck
\* and temp-reports holds no report rendered for its Job.
C28_NoTempFilesLeft ==
    \A s \in Slots :
        sub[s].pc = "done" =>
            /\ \A f \in DOMAIN tempUploads : tempUploads[f] # s
            /\ \A f \in DOMAIN tempReports : tempReports[f] # sub[s].analysisId

\* C29: one call of callGeminiWithRetry makes at most 3 attempts; it has
\* waited once before every retry (1.5 s, then 3 s), and when the third
\* attempt fails it throws at once, with a message that names 3 attempts.
C29_ThreeAttemptsThenError ==
    \A s \in Slots :
        /\ sub[s].attempts <= 3
        /\ sub[s].pc = "ai" =>
              /\ sub[s].attempts = sub[s].retries
              /\ Len(sub[s].delays) = sub[s].attempts
        /\ sub[s].llm = "exhausted" =>
              /\ sub[s].attempts = 3
              /\ sub[s].delays = <<1500, 3000>>
              /\ sub[s].error.msg =
                   "LLM analysis failed: Failed to get valid Gemini analysis after 3 attempts"

C29_Witness ==
    \E s \in Slots : sub[s].llm = "exhausted" /\ sub[s].pc = "catch"

\* C30: callGeminiWithRetry never returns an empty text to its caller.
C30_EmptyTextNotReturned ==
    \A s \in Slots : sub[s].llm # "empty"

\* The stages of the handler that follow 'Saving Analysis Results'
StagesAfterSaving ==
    {"PDF Generation", "PDF Upload to S3", "Finalizing Database Record"}

C32_ReasonOnlyWhenFailed ==
    \A id \in DOMAIN jobs :
        jobs[id].failure_reason # NoError
            => /\ jobs[id].status = "FAILED"
               /\ jobs[id].failure_reason.len <= ReasonLimit

\* The handler threw an error whose message is longer than the limit, and the
\* Job holds the first 500 characters of it.
C32_Witness ==
    \E s \in Slots :
        /\ sub[s].pc = "done"
        /\ sub[s].error.len > ReasonLimit
        /\ PersistedStatus(jobs, sub[s].analysisId) = "FAILED"
        /\ jobs[sub[s].analysisId].failure_reason = Truncate(sub[s].error, ReasonLimit)

\* C33: in the AI-analysis stage of the upload, a response text that is not
\* valid JSON but can be repaired mechanically (unquoted keys) is repaired,
\* parsed and validated, and does not fail the Job on its first parse error.
C33_RepairableResponseAnalysed ==
    \A s \in Slots :
        sub[s].llm = "malformed" /\ ~ValidationFails(sub[s].responseText)
            => /\ sub[s].pc # "catch"
               /\ sub[s].error # MalformedTextError

\* C34: runTextExtraction settles exactly once; it resolves with the slide
\* data only when the process exits with code 0 and its standard output is
\* JSON without a top-level error member; an error member in the
\* standard-output JSON rejects with that error; a non-zero exit code without
\* JSON output rejects with a message that contains the exit code.
C34_ExtractionClassified ==
    fnOut.closeSeen =>
        /\ fnOut.state # "pending"
        /\ fnOut.settles = 1
        /\ fnOut.state = "resolved" =>
              /\ fnIn.code = 0
              /\ fnIn.stdout.kind = "json"
              /\ fnIn.stdout.error = ""
              /\ fnOut.value = fnIn.stdout.data
        /\ (fnIn.stdout.kind = "json" /\ fnIn.stdout.error # "") =>
              /\ fnOut.state = "rejected"
              /\ fnOut.error = fnIn.stdout.error
        /\ ( /\ ~fnIn.spawnFails
             /\ fnIn.code # 0
             /\ fnIn.stdout.kind # "json"
             /\ fnIn.stderr.kind # "json" ) =>
              /\ fnOut.state = "rejected"
              /\ fnOut.code = << fnIn.code >>

\* C35: of the upload requests a user sends within one window of one hour,
\* the first 10 are passed on to the pipeline and every further one is
\* rejected, whatever other users send; a rejected request stores no file and
\* creates no Job: the files stored and the Jobs created for a user are no
\* more than the requests of the user that passed the limiter.
C35_RateLimitPerUser ==
    \A u \in Users :
        /\ fnOut.admitted[u] <= max
        /\ fnOut.admitted[u] = Min(fnOut.sent[u], max)
        /\ Entered(u) + fnOut.refused[u] <= fnOut.passed[u]
        /\ Cardinality({f \in DOMAIN tempUploads : sub[tempUploads[f]].userId = u})
              <= fnOut.passed[u] - fnOut.refused[u]
        /\ Cardinality({id \in DOMAIN jobs : jobs[id].owner = u})
              <= fnOut.passed[u] - fnOut.refused[u]

\* User 1 has sent more than 10 requests in the window and the last one was
\* answered 429, one of the earlier ones has created a Job, and user 2 is
\* still being admitted.
C35_Witness ==
    /\ fnOut.sent[1] > max
    /\ fnOut.admitted[1] = max
    /\ fnOut.code = 429
    /\ \E id \in DOMAIN jobs : jobs[id].owner = 1
    /\ fnOut.sent[2] > 0
    /\ fnOut.admitted[2] = fnOut.sent[2]

\* C36: the validate-slides handler sends exactly one response for a request,
\* whichever of the 'error' and 'close' callbacks of the process fire, both
\* for one process included.
C36_OneResponse ==
    /\ pre.sent <= 1
    /\ pre.pc \in {"errored", "done"} => pre.sent = 1
    /\ pre.pc = "counting" => pre.sent = 0

\* Both callbacks have fired for one process: 'close' called json after
\* 'error' had sent the response.
C36_Witness ==
    /\ pre.pc = "done"
    /\ pre.threw
    /\ pre.sent = 1
    /\ pre.resp.error = "spawn_error"

\* C37: the remove-unavailable request reports in removedCount the number of
\* the caller's FILE_UNAVAILABLE records that it deleted, whatever download
\* and delete requests run at the same time.
C37_RemovedCountExact ==
    rm.pc = "done" => rm.count = rm.deleted

\* The changes of email_status the notification may make
EmailStatusSteps ==
    { <<"NULL", "SENDING">>, <<"SENDING", "SENT">>, <<"SENDING", "FAILED">>,
      <<"NULL", "FAILED">> }

\* C38: a Job's email_status only goes from unset to SENDING and on to SENT or
\* FAILED, or from unset to FAILED: SENT is not recorded without SENDING
\* before it and nothing is recorded after SENT or FAILED; the
\* email_failure_reason is set only together with FAILED; and a write of the
\* email_status leaves the Job's status as it is.
C38_EmailStatusOrder ==
    [][\A id \in DOMAIN jobs \cap DOMAIN jobs' :
          /\ jobs'[id].email_status # jobs[id].email_status =>
                /\ << jobs[id].email_status, jobs'[id].email_status >> \in EmailStatusSteps
                /\ jobs'[id].status = jobs[id].status
          /\ jobs'[id].email_failure_reason # NoError =>
                jobs'[id].email_status = "FAILED"]_vars

\* C39: a client taken from the pool by a route handler or a persistence
\* helper is released exactly once on every path (success, return inside the
\* try block, exception), so a finished call holds no client.
C39_ClientReleasedOnce ==
    /\ fnOut.released <= fnOut.acquired
    /\ fnOut.phase = "finished" => fnOut.released = fnOut.acquired

\* The download has returned from inside its try block with the client
\* given back
C39_Witness ==
    /\ fnIn = "download"
    /\ fnOut.phase = "finished"
    /\ fnOut.outcome = "early"
    /\ fnOut.acquired = 1
    /\ fnOut.released = 1


====
